---- MODULE Spec2Model ----
(***************************************************************************)
(* Sigma alarm panel integration (custom_components/sigma_connect_ha):     *)
(* the polling coordinator, the scraping client's session handling and the *)
(* lock-serialized arm / disarm / stay command.                            *)
(*                                                                         *)
(* Python's None is the empty tuple and a present value x is <<x>>, so an  *)
(* optional field and its content never share a type.                      *)
(***************************************************************************)
EXTENDS Integers, Sequences, FiniteSets, TLC

(* ----------------------------------------------------------------------- *)
(* Bounds of the model                                                     *)
(* ----------------------------------------------------------------------- *)

\* refreshes stop being started once the failure streak reaches this value
MaxStreak == 2

\* the verification deadline (60 s in the code) in clock ticks
DeadlineTicks == 2

\* the longest a single panel read may take, in clock ticks
MaxReadTicks == 1

\* the largest max_consecutive_failures option an entry is given
MaxThreshold == 2

\* the largest max_total_attempts option an entry is given
MaxAttempts == 2

\* the most whitespace characters put on either side of a token
MaxPad == 1

\* the longest secret handed to _encrypt
MaxSecretLen == 15

\* the longest login token handed to _encrypt
MaxTokenLen == 16

\* the largest retry_attempts_for_html option an entry is given
MaxHtmlAttempts == 1

\* the largest retry_backoff_factor option an entry is given, in half seconds
MaxBackoff == 1

\* the most requests.Session objects one client creates
MaxSessions == 4

(* ----------------------------------------------------------------------- *)
(* Values                                                                  *)
(* ----------------------------------------------------------------------- *)

None == << >>

Some(x) == << x >>

Refreshers == {"r1", "r2"}

Callers == {"a1", "a2"}

\* the raw status strings the panel shows (sigma_client.py, parse_alarm_status)
KnownRaw == {"AΦOΠΛIΣMENO", "OΠΛIΣMENO ME ZΩNEΣ BYPASS", "OΠΛIΣMENO",
             "ΠEPIMETPIKH OΠΛIΣH ME ZΩNEΣ BYPASS", "ΠEPIMETPIKH OΠΛIΣH"}

\* a status line the mapping does not know
UnknownRaw == "ΣYNAΓEPMOΣ"

\* the status lines the modelled panel serves
PanelRaw == {"AΦOΠΛIΣMENO", "OΠΛIΣMENO", "ΠEPIMETPIKH OΠΛIΣH ME ZΩNEΣ BYPASS", UnknownRaw}

(* ----------------------------------------------------------------------- *)
(* Python strings: a str is the sequence of its code points                *)
(* ----------------------------------------------------------------------- *)

\* str.isspace(): the code points str.strip() removes
Whitespace ==
    (9..13) \cup (28..32) \cup {133, 160, 5760} \cup (8192..8202)
        \cup {8232, 8233, 8239, 8287, 12288}

RECURSIVE lstrip(_)
lstrip(s) == IF s # << >> /\ Head(s) \in Whitespace THEN lstrip(Tail(s)) ELSE s

RECURSIVE rstrip(_)
rstrip(s) ==
    IF s # << >> /\ s[Len(s)] \in Whitespace THEN rstrip(SubSeq(s, 1, Len(s) - 1)) ELSE s

\* str.strip() without arguments
strip_KeepsTrailing(s) == lstrip(s)

strip(s) == rstrip(lstrip(s))

\* the upper-case mapping of one code point (Basic Latin, Latin-1, Greek and the
\* two Latin letters whose upper case is a Basic Latin letter)
upper_char(c) ==
    CASE c \in 97..122 -> << c - 32 >>
      [] c = 181 -> << 924 >>
      [] c = 223 -> << 83, 83 >>
      [] c \in (224..254) \ {247} -> << c - 32 >>
      [] c = 255 -> << 376 >>
      [] c = 305 -> << 73 >>
      [] c = 383 -> << 83 >>
      [] c = 837 -> << 921 >>
      [] c = 912 -> << 921, 776, 769 >>
      [] c = 940 -> << 902 >>
      [] c \in 941..943 -> << c - 37 >>
      [] c = 944 -> << 933, 776, 769 >>
      [] c = 962 -> << 931 >>
      [] c \in (945..971) \ {962} -> << c - 32 >>
      [] c = 972 -> << 908 >>
      [] c \in 973..974 -> << c - 63 >>
      [] OTHER -> << c >>

\* letters that have a case, and the marks the final-sigma rule looks through
Cased ==
    (65..90) \cup (97..122) \cup {170, 181, 186} \cup ((192..255) \ {215, 247})
        \cup {304, 305, 383, 837, 902} \cup (904..906) \cup {908}
        \cup ((910..974) \ {930})

CaseIgnorable ==
    {39, 46, 58, 94, 96, 168, 173, 175, 180, 183, 184, 884, 885, 890, 900, 901, 903}
        \cup (688..879)

\* the final-sigma rule of str.lower(): a capital sigma that follows a cased
\* letter and is not followed by one
RECURSIVE CasedBefore(_, _)
CasedBefore(s, k) ==
    IF k < 1 THEN FALSE
    ELSE IF s[k] \in CaseIgnorable THEN CasedBefore(s, k - 1)
    ELSE s[k] \in Cased

RECURSIVE CasedAfter(_, _)
CasedAfter(s, k) ==
    IF k > Len(s) THEN FALSE
    ELSE IF s[k] \in CaseIgnorable THEN CasedAfter(s, k + 1)
    ELSE s[k] \in Cased

\* the lower-case mapping of the code point at position k of s
lower_char(s, k) ==
    LET c == s[k] IN
    CASE c \in 65..90 -> << c + 32 >>
      [] c \in (192..222) \ {215} -> << c + 32 >>
      [] c = 304 -> << 105, 775 >>
      [] c = 902 -> << 940 >>
      [] c \in 904..906 -> << c + 37 >>
      [] c = 908 -> << 972 >>
      [] c \in 910..911 -> << c + 63 >>
      [] c = 931 -> IF CasedBefore(s, k - 1) /\ ~CasedAfter(s, k + 1)
                    THEN << 962 >> ELSE << 963 >>
      [] c \in (913..939) \ {930, 931} -> << c + 32 >>
      [] OTHER -> << c >>

RECURSIVE upper_from(_, _)
upper_from(s, k) ==
    IF k > Len(s) THEN << >> ELSE upper_char(s[k]) \o upper_from(s, k + 1)

\* str.upper()
upper_Unchanged(s) == s

upper(s) == upper_from(s, 1)

RECURSIVE lower_from(_, _)
lower_from(s, k) ==
    IF k > Len(s) THEN << >> ELSE lower_char(s, k) \o lower_from(s, k + 1)

\* str.lower()
lower(s) == lower_from(s, 1)

\* the string literals of _to_bool and _to_openclosed
Str_NAI_el == << 925, 913, 921 >>    \* "ΝΑΙ"

Str_NAI == << 78, 65, 73 >>    \* "NAI"

Str_YES == << 89, 69, 83 >>    \* "YES"

Str_TRUE == << 84, 82, 85, 69 >>    \* "TRUE"

Str_OXI == << 79, 88, 73 >>    \* "OXI"

Str_NO == << 78, 79 >>    \* "NO"

Str_FALSE == << 70, 65, 76, 83, 69 >>    \* "FALSE"

Str_kleisti == << 954, 955, 949, 953, 963, 964, 942 >>    \* "κλειστή"

Str_anoikti == << 945, 957, 959, 953, 954, 964, 942 >>    \* "ανοικτή"

Str_Closed == << 67, 108, 111, 115, 101, 100 >>    \* "Closed"

Str_Open == << 79, 112, 101, 110 >>    \* "Open"

\* the two zone rows the modelled panel serves
Zone1 == [zone |-> "1", description |-> "Door", status |-> Str_kleisti, bypass |-> Str_OXI]

Zone2 == [zone |-> "2", description |-> "Window", status |-> Str_anoikti, bypass |-> Str_NAI]

(* ----------------------------------------------------------------------- *)
(* Pure functions of the client                                            *)
(* ----------------------------------------------------------------------- *)

\* Python truthiness of an optional string: None and "" are falsy
Falsy(v) == v = None \/ v = Some("")

\* SigmaClient.parse_alarm_status: raw status (optional) -> <<status, bypass>>
parse_alarm_status_PerimeterBypassLost(raw_status) ==
    CASE raw_status = Some("AΦOΠΛIΣMENO") -> << Some("Disarmed"), None >>
      [] raw_status = Some("OΠΛIΣMENO ME ZΩNEΣ BYPASS") -> << Some("Armed"), Some(TRUE) >>
      [] raw_status = Some("OΠΛIΣMENO") -> << Some("Armed"), Some(FALSE) >>
      [] raw_status = Some("ΠEPIMETPIKH OΠΛIΣH ME ZΩNEΣ BYPASS") -> << Some("Armed Perimeter"), Some(FALSE) >>
      [] raw_status = Some("ΠEPIMETPIKH OΠΛIΣH") -> << Some("Armed Perimeter"), Some(FALSE) >>
      [] OTHER -> << None, None >>

parse_alarm_status(raw_status) ==
    CASE raw_status = Some("AΦOΠΛIΣMENO") -> << Some("Disarmed"), None >>
      [] raw_status = Some("OΠΛIΣMENO ME ZΩNEΣ BYPASS") -> << Some("Armed"), Some(TRUE) >>
      [] raw_status = Some("OΠΛIΣMENO") -> << Some("Armed"), Some(FALSE) >>
      [] raw_status = Some("ΠEPIMETPIKH OΠΛIΣH ME ZΩNEΣ BYPASS") -> << Some("Armed Perimeter"), Some(TRUE) >>
      [] raw_status = Some("ΠEPIMETPIKH OΠΛIΣH") -> << Some("Armed Perimeter"), Some(FALSE) >>
      [] OTHER -> << None, None >>

\* Python's a ^ b on non-negative integers
RECURSIVE Xor(_, _)
Xor(a, b) ==
    IF a = 0 THEN b
    ELSE IF b = 0 THEN a
    ELSE ((a + b) % 2) + 2 * Xor(a \div 2, b \div 2)

\* str(n) of a non-negative integer: its decimal digits
RECURSIVE str(_)
str(n) == IF n < 10 THEN << 48 + n >> ELSE str(n \div 10) \o << 48 + (n % 10) >>

\* int(s) of a string of decimal digits
RECURSIVE int(_)
int(s) == IF s = << >> THEN 0 ELSE 10 * int(SubSeq(s, 1, Len(s) - 1)) + (s[Len(s)] - 48)

\* one hexadecimal digit, lower case
hexdigit(d) == IF d < 10 THEN 48 + d ELSE 87 + d

\* format(n, "x")
RECURSIVE hex(_)
hex(n) == IF n < 16 THEN << hexdigit(n) >> ELSE hex(n \div 16) \o << hexdigit(n % 16) >>

\* f"{n:02x}": at least two digits, more when n > 255
format_02x_TwoDigits(n) == << hexdigit((n \div 16) % 16), hexdigit(n % 16) >>

format_02x(n) == IF n < 16 THEN << 48 >> \o hex(n) ELSE hex(n)

\* a slice bound, as Python clamps it against the length
SliceIndex(n, length) ==
    IF n < 0 THEN (IF n + length < 0 THEN 0 ELSE n + length)
    ELSE IF n > length THEN length ELSE n

\* s[start:stop]
Slice(s, start, stop) ==
    LET a == SliceIndex(start, Len(s))
        b == SliceIndex(stop, Len(s))
    IN  IF a < b THEN SubSeq(s, a + 1, b) ELSE << >>

\* _encrypt, first loop, iteration i: st is the pair of j and S before it
KeyStep(i, st, token) ==
    LET j2 == (st.j + st.S[i] + token[(i % Len(token)) + 1]) % 256
    IN  [j |-> j2, S |-> [st.S EXCEPT ![i] = st.S[j2], ![j2] = st.S[i]]]

\* _encrypt, first loop, iterations lo..hi-1 in order (halved to keep the
\* evaluation shallow)
RECURSIVE KeySteps(_, _, _, _)
KeySteps(lo, hi, st, token) ==
    IF hi - lo = 1 THEN KeyStep(lo, st, token)
    ELSE LET mid  == (lo + hi) \div 2
             half == KeySteps(lo, mid, st, token)
         IN  IF half.j \in 0..255 THEN KeySteps(mid, hi, half, token) ELSE half

\* _encrypt, first loop: the key schedule over the token
KeySchedule(token) == KeySteps(0, 256, [j |-> 0, S |-> [x \in 0..255 |-> x]], token).S

\* _encrypt, second loop: the cipher characters of newpass from position k on
RECURSIVE Cipher(_, _, _, _, _)
Cipher(newpass, k, i, j, S) ==
    IF k > Len(newpass) THEN << >>
    ELSE LET i2 == (i + 1) % 256
             j2 == (j + S[i2]) % 256
             S2 == [S EXCEPT ![i2] = S[j2], ![j2] = S[i2]]
             K  == S2[(S2[i2] + S2[j2]) % 256]
         IN  << Xor(newpass[k], K) >> \o Cipher(newpass, k + 1, i2, j2, S2)

RECURSIVE join_02x(_)
join_02x(cipher) ==
    IF cipher = << >> THEN << >>
    ELSE format_02x(Head(cipher)) \o join_02x(Tail(cipher))

\* SigmaClient._encrypt with num the value random.randint(1, 7) returned
_encrypt(secret, token, num) ==
    IF Len(token) = 0
    THEN [raised |-> "ZeroDivisionError", hex |-> << >>, length |-> << >>]
    ELSE LET S          == KeySchedule(token)
             prefix     == Slice(token, 1, 1 + num)
             suffix_len == 14 - num - Len(secret)
             suffix     == Slice(token, num, num + suffix_len)
             newpass    == prefix \o secret \o suffix \o str(num) \o str(Len(secret))
             cipher     == Cipher(newpass, 1, 0, 0, S)
         IN  [raised |-> "none", hex |-> join_02x(cipher), length |-> str(Len(cipher))]

\* "if not val": None and the empty str are falsy
not_val(val) == val = None \/ val = Some(<< >>)

\* SigmaClient._to_bool: optional token -> optional boolean
_to_bool(val) ==
    IF not_val(val) THEN None
    ELSE LET v == upper(strip(val[1])) IN
         IF v \in {Str_NAI_el, Str_NAI, Str_YES, Str_TRUE} THEN Some(TRUE)
         ELSE IF v \in {Str_OXI, Str_NO, Str_FALSE} THEN Some(FALSE)
         ELSE None

\* SigmaClient._to_openclosed: optional token -> optional token
_to_openclosed(val) ==
    IF not_val(val) THEN None
    ELSE LET v == lower(strip(val[1])) IN
         IF v = Str_kleisti THEN Some(Str_Closed)
         ELSE IF v = Str_anoikti THEN Some(Str_Open)
         ELSE val

(* ----------------------------------------------------------------------- *)
(* The panel's pages as parse_zones_html reads them                        *)
(* ----------------------------------------------------------------------- *)

\* parse_zones_html of a data page: any field may be missing from the text
Pages ==
    [alarm_status : {None} \cup {Some(r) : r \in PanelRaw},
     battery_volt : {None, Some(135)},
     ac_power     : {Some(TRUE)},
     zones        : {<< >>, << Zone1, Zone2 >>}]

\* parse_zones_html of the login page, served when the session is not logged in
LoginPage ==
    [alarm_status |-> None, battery_volt |-> None, ac_power |-> None, zones |-> << >>]

\* _to_openclosed of the status texts the served rows carry (coordinator.py, _fetch)
ZoneStatus == [t \in {Zone1.status, Zone2.status} |-> _to_openclosed(Some(t))]

\* _to_bool of the bypass texts the served rows carry (coordinator.py, _fetch)
ZoneBypass == [t \in {Zone1.bypass, Zone2.bypass} |-> _to_bool(Some(t))]

\* the dict _fetch builds from a page (coordinator.py, the return of _fetch)
Snapshot(p) ==
    [status         |-> parse_alarm_status(p.alarm_status)[1],
     zones_bypassed |-> parse_alarm_status(p.alarm_status)[2],
     battery_volt   |-> p.battery_volt,
     ac_power       |-> p.ac_power,
     zones          |-> [k \in 1..Len(p.zones) |->
                           [zone        |-> p.zones[k].zone,
                            description |-> p.zones[k].description,
                            status      |-> ZoneStatus[p.zones[k].status],
                            bypass      |-> ZoneBypass[p.zones[k].bypass]]]]

\* _fetch: "if not parsed or battery_volt is None or not zones: raise ValueError"
IncompleteData_NoZoneCheck(p) ==
    \/ Falsy(parse_alarm_status(p.alarm_status)[1])
    \/ p.battery_volt = None

IncompleteData(p) ==
    \/ Falsy(parse_alarm_status(p.alarm_status)[1])
    \/ p.battery_volt = None
    \/ Len(p.zones) = 0

\* try_zones_directly: "if not alarm_status or battery_volt is None or not zones"
DirectIncomplete_Always(p) == TRUE

DirectIncomplete(p) ==
    \/ Falsy(p.alarm_status)
    \/ p.battery_volt = None
    \/ Len(p.zones) = 0

\* _async_update_data: the stale snapshot is served while the streak is short
ServeStale_Inclusive(last, failures, threshold) ==
    last # None /\ failures <= threshold

ServeStale_NoSnapshotCheck(last, failures, threshold) ==
    failures < threshold

ServeStale(last, failures, threshold) ==
    last # None /\ failures < threshold

\* _async_update_data: "self._consecutive_failures += 1"
StreakAfterFailure_Stuck(failures) == IF failures = 0 THEN 1 ELSE failures

StreakAfterFailure(failures) == failures + 1

\* asyncio.Lock: "async with self._poll_lock" is entered only when the lock is not held
PollLockFree_Ignored(locked) == TRUE

PollLockFree(locked) == ~locked

\* safe_get_status after a failed reuse, in statement order: logout(), login()
\* (_submit_login, then _submit_pin), then the read on the new session
AfterStep_ReadBeforeLogin(step) ==
    CASE step = "logout" -> "reread"
      [] step = "login" -> "pin"
      [] step = "pin" -> "reread"
      [] OTHER -> step

AfterStep(step) ==
    CASE step = "logout" -> "login"
      [] step = "login" -> "pin"
      [] step = "pin" -> "reread"
      [] OTHER -> step

(* ----------------------------------------------------------------------- *)
(* The sigma_alarm variant of the integration                              *)
(* ----------------------------------------------------------------------- *)

\* sigma_alarm/sigma_client.py, SigmaClient.parse_alarm_status
sigma_alarm_parse_alarm_status(raw_status) ==
    CASE raw_status = Some("AΦOΠΛIΣMENO") -> << Some("Disarmed"), None >>
      [] raw_status = Some("OΠΛIΣMENO ME ZΩNEΣ BYPASS") -> << Some("Armed"), Some(TRUE) >>
      [] raw_status = Some("OΠΛIΣMENO") -> << Some("Armed"), Some(FALSE) >>
      [] raw_status = Some("ΠEPIMETPIKH OΠΛIΣH ME ZΩNEΣ BYPASS") -> << Some("Armed Perimeter"), Some(TRUE) >>
      [] raw_status = Some("ΠEPIMETPIKH OΠΛIΣH") -> << Some("Armed Perimeter"), Some(FALSE) >>
      [] OTHER -> << None, None >>

\* sigma_alarm/alarm_control_panel.py, SigmaAlarmPanel.alarm_state
sigma_alarm_alarm_state(status) ==
    CASE status = Some("Disarmed") -> "DISARMED"
      [] status = Some("Armed") -> "ARMED_AWAY"
      [] status = Some("Perimeter Armed") -> "ARMED_HOME"
      [] OTHER -> "UNKNOWN"

(* ----------------------------------------------------------------------- *)
(* coordinator.sanitize_host                                               *)
(* ----------------------------------------------------------------------- *)

\* "http://" and "https://"
Str_http == << 104, 116, 116, 112, 58, 47, 47 >>

Str_https == << 104, 116, 116, 112, 115, 58, 47, 47 >>

\* the pattern anchored at the start matches: s begins with p
StartsWith(s, p) == Len(s) >= Len(p) /\ SubSeq(s, 1, Len(p)) = p

\* re.sub(r"^https?://", "", raw_host)
sub_scheme(s) ==
    IF StartsWith(s, Str_https) THEN SubSeq(s, Len(Str_https) + 1, Len(s))
    ELSE IF StartsWith(s, Str_http) THEN SubSeq(s, Len(Str_http) + 1, Len(s))
    ELSE s

\* what \d matches in a str pattern, among the code points of the modelled hosts:
\* the ASCII digits and the Arabic-Indic digits
Digits == (48..57) \cup (1632..1641)

\* how many digits stand immediately before position e + 1
RECURSIVE DigitsBefore(_, _)
DigitsBefore(s, e) ==
    IF e >= 1 /\ s[e] \in Digits THEN 1 + DigitsBefore(s, e - 1) ELSE 0

\* where "$" matches without re.MULTILINE: at the end of the string, and before a
\* line feed that is its last character; the digits of the pattern must end there
DollarAt(s) == IF s # << >> /\ s[Len(s)] = 10 THEN Len(s) - 1 ELSE Len(s)

\* re.sub(r":\d+$", "", host): the colon and digits go, a final line feed stays
sub_port(s) ==
    LET e == DollarAt(s)
        k == DigitsBefore(s, e)
    IN  IF k >= 1 /\ e - k >= 1 /\ s[e - k] = 58
        THEN SubSeq(s, 1, e - k - 1) \o SubSeq(s, e + 1, Len(s))
        ELSE s

\* sanitize_host(raw_host)
sanitize_host(raw_host) == strip(sub_port(sub_scheme(raw_host)))

(* ----------------------------------------------------------------------- *)
(* State                                                                   *)
(* ----------------------------------------------------------------------- *)

VARIABLES
    _last_data,               \* SigmaCoordinator._last_data: None or <<snapshot>>
    _consecutive_failures,    \* SigmaCoordinator._consecutive_failures
    max_consecutive_failures, \* SigmaCoordinator.max_consecutive_failures (entry option)
    max_total_attempts,       \* SigmaCoordinator.max_total_attempts (entry option)
    _poll_lock,               \* SigmaCoordinator._poll_lock is locked
    lock,                     \* SigmaCoordinator.lock is locked
    releases,                 \* lock.release callbacks queued on the event loop, by caller
    _session_authenticated,   \* SigmaClient._session_authenticated
    session,                  \* what the panel grants client.session: "none", "password", "pin"
    _send_analytics,          \* SigmaClient._send_analytics
    _analytics_sent,          \* SigmaClient._analytics_sent
    poll,                     \* each refresh task: where it is and its locals
    call,                     \* each perform_action invocation: where it is and its locals
    hist,                     \* history: what has happened, for stating the claims
    RETRY_ATTEMPTS_FOR_HTML,  \* sigma_client.RETRY_ATTEMPTS_FOR_HTML (module global)
    RETRY_BACKOFF_FACTOR,     \* sigma_client.RETRY_BACKOFF_FACTOR, in half seconds
    entries,                  \* each config entry: its options, data and coordinator
    wrapper,                  \* one call of a retry_html_request wrapper
    sess,                     \* the requests.Session objects behind client.session
    fn                        \* one call of a helper function: its input and result

coordVars == << _last_data, _consecutive_failures, max_consecutive_failures,
                max_total_attempts, _poll_lock >>

lockVars == << lock, releases >>

clientVars == << _session_authenticated, session, _send_analytics, _analytics_sent >>

\* the coordinator, its client and their callers
progVars == << coordVars, lockVars, clientVars, poll, call, hist >>

\* module configuration, the retry wrapper, the session objects, the helpers
unitVars == << RETRY_ATTEMPTS_FOR_HTML, RETRY_BACKOFF_FACTOR, entries, wrapper, sess, fn >>

vars == << progVars, unitVars >>

\* sigma_client.py: RETRY_ATTEMPTS_FOR_HTML = 5 and RETRY_BACKOFF_FACTOR = 0.5
ModuleHtmlAttempts == 5

ModuleBackoff == 1

\* the config entries of the installation
Entries == {"e1", "e2"}

\* an entry whose coordinator has not been constructed
NoEntry == [ran |-> FALSE]

\* no wrapped function is being called inside the wrapped function
NoInner == [pc |-> "idle", n |-> 0, attempt |-> 0, trace |-> << >>, out |-> "none"]

\* no wrapped function is being called
IdleWrapper ==
    [pc |-> "idle", n |-> 0, attempt |-> 0, exc |-> "none", trace |-> << >>,
     sleeps |-> 0, out |-> "none", inner |-> NoInner]

\* a requests.Session as _create_session returns it: open, its cookie jar empty
NewSession == [closed |-> FALSE, cookies |-> FALSE]

\* the session the client is constructed with: objs are the session objects
\* created so far, cur the one client.session refers to
FirstSession ==
    [pc |-> "idle", cur |-> 1, prev |-> 0, objs |-> << NewSession >>, exc |-> "none",
     out |-> "none"]

\* no helper function is being called
NoCall == [name |-> "none"]

\* module state after import, nothing constructed, nothing called
UnitsIdle ==
    /\ RETRY_ATTEMPTS_FOR_HTML = ModuleHtmlAttempts
    /\ RETRY_BACKOFF_FACTOR = ModuleBackoff
    /\ entries = [e \in Entries |-> NoEntry]
    /\ wrapper = IdleWrapper
    /\ sess = FirstSession
    /\ fn = NoCall

\* a refresh task that is not running
IdlePoll ==
    [pc |-> "idle", i |-> 0, data |-> None, attempts |-> 0, job |-> "none",
     result |-> None, ret |-> "none", value |-> None, h_n |-> 0, h_good |-> None,
     trail |-> << >>, h_reuse |-> "none", h_src |-> None, sleeps |-> 0, failed |-> 0]

\* a perform_action invocation that has not been made
IdleCall ==
    [pc |-> "idle", action |-> "none", now |-> 0, ret |-> "none",
     reads |-> 0, triggers |-> 0, verified |-> FALSE, refreshes |-> 0,
     acquired |-> FALSE, triggered |-> FALSE, first_match |-> FALSE, seen |-> FALSE,
     seen_in_time |-> FALSE, late_read |-> FALSE, absorbed |-> FALSE,
     left_at |-> "none", refresh_ret |-> "none", refresh_late |-> FALSE,
     op |-> "none", op_ret |-> "none", op_refreshes |-> 0,
     first_read |-> "none", op_calls |-> 0]

\* state after SigmaCoordinator.__init__ and SigmaClient.__init__
Init ==
    /\ _last_data = None
    /\ _consecutive_failures = 0
    /\ max_consecutive_failures \in 1..MaxThreshold
    /\ max_total_attempts \in {0, 1, MaxAttempts}
    /\ _poll_lock = FALSE
    /\ lock = FALSE
    /\ releases = << >>
    /\ _session_authenticated = FALSE
    /\ session = "none"
    /\ _send_analytics \in BOOLEAN
    /\ _analytics_sent = FALSE
    /\ poll = [r \in Refreshers |-> IdlePoll]
    /\ call = [a \in Callers |-> IdleCall]
    /\ hist = [fails |-> 0, good |-> None, logged_out |-> FALSE, login_failed |-> FALSE,
               holders |-> {}, posts |-> 0]
    /\ UnitsIdle

(* ----------------------------------------------------------------------- *)
(* The panel                                                               *)
(* ----------------------------------------------------------------------- *)

\* select_partition + GET zones + parse_zones_html over the current session:
\* None when any request or the parse raises, else <<page>>
ReadResults ==
    {None} \cup {Some(p) : p \in (IF session = "pin" THEN Pages ELSE {LoginPage})}

\* try_zones_directly over read outcome o: None unless authenticated and complete
TryZones(o) ==
    IF ~_session_authenticated THEN None
    ELSE IF o = None THEN None
    ELSE IF DirectIncomplete(o[1]) THEN None
    ELSE o

\* what try_zones_directly may return in the current state
TryZonesResults == {TryZones(o) : o \in ReadResults}

\* history: how the session-reuse read of an attempt went
ReuseClass(o) ==
    IF ~_session_authenticated THEN "skipped"
    ELSE IF o = None THEN "error"
    ELSE IF o[1].alarm_status \in {None, Some("")} \/ o[1].battery_volt = None
            \/ Len(o[1].zones) = 0 THEN "incomplete"
    ELSE IF parse_alarm_status(o[1].alarm_status)[1] = None THEN "unresolved"
    ELSE "complete"

\* the panel drops the session (timeout on its side)
SessionExpire ==
    /\ session # "none"
    /\ session' = "none"
    /\ UNCHANGED << coordVars, lockVars, _session_authenticated, _send_analytics,
                    _analytics_sent, poll, call, hist >>

(* ----------------------------------------------------------------------- *)
(* SigmaCoordinator: one refresh                                           *)
(* ----------------------------------------------------------------------- *)

\* _retry_with_backoff: "if i < self.max_total_attempts: time.sleep(...)"
SleepsAfter_EveryFailure(i, attempts) == TRUE

SleepsAfter(i, attempts) == i < attempts

\* _retry_with_backoff: an attempt raised; next attempt, or UpdateFailed after the last
AttemptFailed(q) ==
    LET slept == [q EXCEPT !.failed = @ + 1,
                           !.sleeps = IF SleepsAfter(q.i, max_total_attempts)
                                      THEN @ + 1 ELSE @]
    IN  IF q.i < max_total_attempts
        THEN [slept EXCEPT !.pc = "direct", !.i = @ + 1, !.data = None, !.h_src = None,
                           !.trail = << >>, !.h_reuse = "none"]
        ELSE [slept EXCEPT !.pc = "finish", !.job = "raised", !.data = None,
                           !.h_src = None]

\* _fetch once safe_get_status returned page p: validate, build the snapshot
Fetched(q, p) ==
    IF IncompleteData(p)
    THEN AttemptFailed(q)
    ELSE [q EXCEPT !.pc = "finish", !.job = "returned",
                   !.result = Some(Snapshot(p)), !.data = None]

\* safe_get_status: "if self._send_analytics and not self._analytics_sent"
AnalyticsDue_EveryCall(send, sent) == send

AnalyticsDue(send, sent) == send /\ ~sent

\* safe_get_status once it holds page p: the analytics block runs once per client
WithData(q, p) ==
    IF AnalyticsDue(_send_analytics, _analytics_sent)
    THEN [q EXCEPT !.pc = "analytics", !.data = Some(p), !.attempts = 0, !.h_src = Some(p)]
    ELSE Fetched([q EXCEPT !.h_src = Some(p)], p)

\* a refresh is asked for: by the update timer, or by an entity's request
Refresh_Request(r) ==
    /\ poll[r].pc = "idle"
    /\ _consecutive_failures < MaxStreak
    /\ poll' = [poll EXCEPT ![r].pc = "queued"]
    /\ UNCHANGED << coordVars, lockVars, clientVars, call, hist >>

\* _async_update_data enters "async with self._poll_lock" and starts the executor job
Refresh_Begin_UnderActionLock(r) ==
    /\ poll[r].pc = "queued"
    /\ PollLockFree(_poll_lock)
    /\ ~lock
    /\ _poll_lock' = TRUE
    /\ poll' = [poll EXCEPT ![r] =
                  IF max_total_attempts >= 1
                  THEN [IdlePoll EXCEPT !.pc = "direct", !.i = 1]
                  ELSE [IdlePoll EXCEPT !.pc = "finish", !.job = "raised"]]
    /\ UNCHANGED << _last_data, _consecutive_failures, max_consecutive_failures,
                    max_total_attempts, lockVars, clientVars, call, hist >>

Refresh_Begin(r) ==
    /\ poll[r].pc = "queued"
    /\ PollLockFree(_poll_lock)
    /\ _poll_lock' = TRUE
    /\ poll' = [poll EXCEPT ![r] =
                  IF max_total_attempts >= 1
                  THEN [IdlePoll EXCEPT !.pc = "direct", !.i = 1]
                  ELSE [IdlePoll EXCEPT !.pc = "finish", !.job = "raised"]]
    /\ UNCHANGED << _last_data, _consecutive_failures, max_consecutive_failures,
                    max_total_attempts, lockVars, clientVars, call, hist >>

\* safe_get_status: data = self.try_zones_directly()
Fetch_Direct(r) ==
    /\ poll[r].pc = "direct"
    /\ \E o \in ReadResults :
          LET d == TryZones(o)
              q == [poll[r] EXCEPT !.trail = << "direct" >>, !.h_reuse = ReuseClass(o),
                                   !.h_src = None]
          IN  poll' = [poll EXCEPT ![r] =
                         IF d = None THEN [q EXCEPT !.pc = "logout"] ELSE WithData(q, d[1])]
    /\ UNCHANGED << coordVars, lockVars, clientVars, call, hist >>

\* safe_get_status: self.logout() - the request is best effort, the session is replaced
Fetch_Logout(r) ==
    /\ poll[r].pc = "logout"
    /\ session' = "none"
    /\ poll' = [poll EXCEPT ![r].pc = AfterStep("logout"),
                             ![r].trail = Append(@, "logout")]
    /\ hist' = [hist EXCEPT !.logged_out = TRUE]
    /\ UNCHANGED << coordVars, lockVars, _session_authenticated, _send_analytics,
                    _analytics_sent, call >>

\* login: self._submit_login() - returns, or raises out of the attempt
Fetch_SubmitLogin(r) ==
    /\ poll[r].pc = "login"
    /\ \E ok \in BOOLEAN :
          IF ok
          THEN /\ session' = "password"
               /\ poll' = [poll EXCEPT ![r].pc = AfterStep("login"),
                                        ![r].trail = Append(@, "submit_login")]
               /\ hist' = hist
          ELSE /\ session' = session
               /\ poll' = [poll EXCEPT ![r] =
                              AttemptFailed([@ EXCEPT !.trail = Append(@, "submit_login")])]
               /\ hist' = [hist EXCEPT !.login_failed = TRUE]
    /\ UNCHANGED << coordVars, lockVars, _session_authenticated, _send_analytics,
                    _analytics_sent, call >>

\* login: self._submit_pin(), then self._session_authenticated = True
Fetch_SubmitPin(r) ==
    /\ poll[r].pc = "pin"
    /\ \E ok \in BOOLEAN :
          IF ok
          THEN /\ session' = (IF session = "password" THEN "pin" ELSE session)
               /\ _session_authenticated' = TRUE
               /\ poll' = [poll EXCEPT ![r].pc = AfterStep("pin"),
                                        ![r].trail = Append(@, "submit_pin")]
               /\ hist' = [hist EXCEPT !.logged_out = FALSE, !.login_failed = FALSE]
          ELSE /\ session' = session
               /\ _session_authenticated' = _session_authenticated
               /\ poll' = [poll EXCEPT ![r] =
                              AttemptFailed([@ EXCEPT !.trail = Append(@, "submit_pin")])]
               /\ hist' = [hist EXCEPT !.login_failed = TRUE]
    /\ UNCHANGED << coordVars, lockVars, _send_analytics, _analytics_sent, call >>

\* safe_get_status: select_partition, GET zones, parse_zones_html on the new session
Fetch_Reread(r) ==
    /\ poll[r].pc = "reread"
    /\ \E o \in ReadResults :
          LET q == [poll[r] EXCEPT !.trail = Append(@, "read")]
          IN  poll' = [poll EXCEPT ![r] =
                         IF o = None THEN AttemptFailed(q) ELSE WithData(q, o[1])]
    /\ UNCHANGED << coordVars, lockVars, clientVars, call, hist >>

\* safe_get_status: one turn of "while attempts < 3 and zones is empty"
Fetch_AnalyticsRetry(r) ==
    /\ poll[r].pc = "analytics"
    /\ poll[r].attempts < 3
    /\ Len(poll[r].data[1].zones) = 0
    /\ \E d \in TryZonesResults :
          poll' = [poll EXCEPT ![r].data = IF d = None THEN @ ELSE d,
                               ![r].attempts = @ + 1]
    /\ UNCHANGED << coordVars, lockVars, clientVars, call, hist >>

\* safe_get_status: post the analytics, mark them sent, return data to _fetch
Fetch_AnalyticsSend(r) ==
    /\ poll[r].pc = "analytics"
    /\ ~(poll[r].attempts < 3 /\ Len(poll[r].data[1].zones) = 0)
    /\ _analytics_sent' = TRUE
    /\ hist' = [hist EXCEPT !.posts = @ + 1]
    /\ poll' = [poll EXCEPT ![r] = Fetched(@, @.data[1])]
    /\ UNCHANGED << coordVars, lockVars, _session_authenticated, session,
                    _send_analytics, call >>

\* _async_update_data after the executor job: store and return, or count the failure
Refresh_Finish(r) ==
    /\ poll[r].pc = "finish"
    /\ IF poll[r].job = "returned"
       THEN /\ _last_data' = poll[r].result
            /\ _consecutive_failures' = 0
            /\ hist' = [hist EXCEPT !.fails = 0, !.good = poll[r].result]
            /\ poll' = [poll EXCEPT ![r].pc = "done", ![r].ret = "returned",
                                     ![r].value = poll[r].result,
                                     ![r].h_n = 0, ![r].h_good = poll[r].result,
                                     ![r].trail = << >>, ![r].h_reuse = "none",
                                     ![r].h_src = None]
       ELSE /\ _last_data' = _last_data
            /\ _consecutive_failures' = StreakAfterFailure(_consecutive_failures)
            /\ hist' = [hist EXCEPT !.fails = @ + 1]
            /\ poll' = [poll EXCEPT
                  ![r].pc = "done",
                  ![r].ret = IF ServeStale(_last_data,
                                           StreakAfterFailure(_consecutive_failures),
                                           max_consecutive_failures)
                             THEN "returned" ELSE "raised",
                  ![r].value = IF ServeStale(_last_data,
                                             StreakAfterFailure(_consecutive_failures),
                                             max_consecutive_failures)
                               THEN _last_data ELSE None,
                  ![r].h_n = hist.fails + 1, ![r].h_good = hist.good,
                  ![r].trail = << >>, ![r].h_reuse = "none", ![r].h_src = None]
    /\ _poll_lock' = FALSE
    /\ UNCHANGED << max_consecutive_failures, max_total_attempts, lockVars, clientVars,
                    call >>

\* the caller of the refresh has taken its outcome
Refresh_Return(r) ==
    /\ poll[r].pc = "done"
    /\ \A a \in Callers : call[a].pc \notin {"refreshing", "op_refreshing"}
    /\ poll' = [poll EXCEPT ![r] = IdlePoll]
    /\ UNCHANGED << coordVars, lockVars, clientVars, call, hist >>

Refresh(r) ==
    \/ Refresh_Request(r)
    \/ Refresh_Begin(r)
    \/ Fetch_Direct(r)
    \/ Fetch_Logout(r)
    \/ Fetch_SubmitLogin(r)
    \/ Fetch_SubmitPin(r)
    \/ Fetch_Reread(r)
    \/ Fetch_AnalyticsRetry(r)
    \/ Fetch_AnalyticsSend(r)
    \/ Refresh_Finish(r)
    \/ Refresh_Return(r)

NextPoll ==
    /\ SessionExpire \/ \E r \in Refreshers : Refresh(r)
    /\ UNCHANGED unitVars

\* the polling side alone
SpecPoll == Init /\ [][NextPoll]_vars

(* ----------------------------------------------------------------------- *)
(* SigmaClient.perform_action                                              *)
(* ----------------------------------------------------------------------- *)

\* the action names a caller may pass; "panic" is none of the panel's actions
ActionNames == {"arm", "disarm", "stay", "panic"}

\* the refresh task that serves coordinator.async_request_refresh()
RequestTask == "r2"

\* the target status the specification gives each action
Target(action) ==
    CASE action = "arm" -> "Armed"
      [] action = "disarm" -> "Disarmed"
      [] action = "stay" -> "Armed Perimeter"
      [] OTHER -> "no target"

\* perform_action: "if action not in action_map"
ValidAction_Any(action) == TRUE

ValidAction(action) == action \in {"arm", "disarm", "stay"}

\* perform_action: desired_map
desired_map_Swapped(action) ==
    CASE action = "arm" -> "Armed Perimeter"
      [] action = "disarm" -> "Disarmed"
      [] action = "stay" -> "Armed"
      [] OTHER -> "KeyError"

desired_map(action) ==
    CASE action = "arm" -> "Armed"
      [] action = "disarm" -> "Disarmed"
      [] action = "stay" -> "Armed Perimeter"
      [] OTHER -> "KeyError"

\* asyncio.Lock.acquire returns at once only when the lock is not held
LockFree_Ignored(locked) == TRUE

LockFree(locked) == ~locked

\* perform_action step 1: "if current_status == desired"
AlreadyDesired_Never(current, desired) == FALSE

AlreadyDesired(current, desired) == current = Some(desired)

\* perform_action step 3: "if new_state == desired"
ReachedDesired(new_state, desired) == new_state = Some(desired)

\* perform_action step 3: "while time.time() < deadline"
VerifyOpen_Late(now) == now <= DeadlineTicks

VerifyOpen(now) == now < DeadlineTicks

\* step 3: an error or a mismatch sleeps and loops back to the read, not the trigger
AfterVerifyMiss_Retrigger == "trigger"

AfterVerifyMiss == "verify"

\* step 3: "return True" follows async_request_refresh().result() unconditionally
ResultAfterRefresh_IfFreshInTime(outcome, now) ==
    IF outcome = "returned" /\ now < DeadlineTicks THEN "True" ELSE "False"

ResultAfterRefresh(outcome, now) == "True"

\* the finally block: lock.release is handed to the event loop
Leave_NoRelease(a, q) ==
    /\ call' = [call EXCEPT ![a] = [q EXCEPT !.pc = "done", !.now = 0, !.absorbed = FALSE]]
    /\ releases' = releases

Leave(a, q) ==
    /\ call' = [call EXCEPT ![a] = [q EXCEPT !.pc = "done", !.now = 0, !.absorbed = FALSE]]
    /\ releases' = Append(releases, a)

\* perform_action is called; an unknown action name returns False at once
PA_Call(a) ==
    /\ call[a].pc = "idle"
    /\ \E action \in ActionNames :
          call' = [call EXCEPT ![a] =
                     IF ValidAction(action)
                     THEN [IdleCall EXCEPT !.pc = "waiting", !.action = action]
                     ELSE [IdleCall EXCEPT !.pc = "done", !.action = action,
                                          !.ret = "False", !.left_at = "check"]]
    /\ UNCHANGED << coordVars, lockVars, clientVars, poll, hist >>

\* run_coroutine_threadsafe(coordinator.lock.acquire()).result() returns
PA_Acquire(a) ==
    /\ call[a].pc = "waiting"
    /\ LockFree(lock)
    /\ lock' = TRUE
    /\ call' = [call EXCEPT ![a].pc = "read", ![a].acquired = TRUE]
    /\ hist' = [hist EXCEPT !.holders = @ \cup {a}]
    /\ UNCHANGED << coordVars, releases, clientVars, poll >>

\* history, kept until the trigger is sent: how the initial read of an invocation
\* went - an exception, the login page, a data page whose status line is not
\* resolved, or a resolved status
FirstRead(o) ==
    IF o = None THEN "error"
    ELSE IF o[1] = LoginPage THEN "login"
    ELSE IF parse_alarm_status(o[1].alarm_status)[1] = None THEN "unresolved"
    ELSE "resolved"

\* step 1: select_partition, GET zones, parse; return True when already in the state
PA_InitialRead(a) ==
    /\ call[a].pc = "read"
    /\ \E o \in ReadResults :
          LET q0 == [call[a] EXCEPT !.reads = @ + 1, !.first_read = FirstRead(o)]
              current == parse_alarm_status(o[1].alarm_status)[1]
              hit == current = Some(Target(call[a].action))
              q1 == [q0 EXCEPT !.seen = hit, !.first_match = hit]
          IN  IF o = None
              THEN Leave(a, [q0 EXCEPT !.ret = "raised", !.left_at = "read"])
              ELSE IF AlreadyDesired(current, desired_map(call[a].action))
              THEN Leave(a, [q1 EXCEPT !.ret = "True", !.left_at = "read"])
              ELSE /\ call' = [call EXCEPT ![a] = [q1 EXCEPT !.pc = "trigger"]]
                   /\ releases' = releases
    /\ UNCHANGED << coordVars, lock, clientVars, poll, hist >>

\* step 2: GET arm.html / disarm.html / stay.html once, then the deadline starts
PA_Trigger(a) ==
    /\ call[a].pc = "trigger"
    /\ \E ok \in BOOLEAN :
          LET q0 == [call[a] EXCEPT !.triggers = @ + 1, !.first_read = "none"]
          IN  IF ok
              THEN /\ call' = [call EXCEPT ![a] =
                                 [q0 EXCEPT !.pc = "verify", !.now = 0, !.triggered = TRUE]]
                   /\ releases' = releases
              ELSE Leave(a, [q0 EXCEPT !.ret = "raised", !.left_at = "trigger"])
    /\ UNCHANGED << coordVars, lock, clientVars, poll, hist >>

\* step 3: one turn of the loop - a read that takes d ticks, then sleep or refresh
PA_Verify(a) ==
    /\ call[a].pc = "verify"
    /\ VerifyOpen(call[a].now)
    /\ \E o \in ReadResults, d \in 0..MaxReadTicks, run \in BOOLEAN :
          LET q0 == [call[a] EXCEPT !.verified = TRUE,
                                    !.late_read = @ \/ call[a].now >= DeadlineTicks]
              new_state == parse_alarm_status(o[1].alarm_status)[1]
              hit == new_state = Some(Target(call[a].action))
              q1 == [q0 EXCEPT !.seen = @ \/ hit,
                               !.seen_in_time = @ \/ (hit /\ call[a].now + d < DeadlineTicks)]
          IN  IF o = None
              THEN /\ ~run
                   /\ call' = [call EXCEPT ![a] =
                                 [q0 EXCEPT !.pc = AfterVerifyMiss, !.absorbed = TRUE,
                                            !.now = @ + d + 1]]
                   /\ UNCHANGED << releases, poll >>
              ELSE IF ~ReachedDesired(new_state, desired_map(call[a].action))
              THEN /\ ~run
                   /\ call' = [call EXCEPT ![a] =
                                 [q1 EXCEPT !.pc = AfterVerifyMiss, !.now = @ + d + 1]]
                   /\ UNCHANGED << releases, poll >>
              ELSE IF run
              THEN \* the debouncer runs the refresh now and the call waits for it
                   /\ poll[RequestTask].pc = "idle"
                   /\ _consecutive_failures < MaxStreak
                   /\ poll' = [poll EXCEPT ![RequestTask].pc = "queued"]
                   /\ call' = [call EXCEPT ![a] =
                                 [q1 EXCEPT !.pc = "refreshing", !.now = @ + d,
                                            !.refreshes = @ + 1]]
                   /\ releases' = releases
              ELSE \* the debouncer defers the refresh and the request returns at once
                   /\ Leave(a, [q1 EXCEPT !.ret = ResultAfterRefresh("deferred", @.now + d),
                                          !.left_at = "verify", !.now = @ + d,
                                          !.refreshes = @ + 1, !.refresh_ret = "deferred"])
                   /\ poll' = poll
    /\ UNCHANGED << coordVars, lock, clientVars, hist >>

\* step 3: the loop ends at the deadline, return False
PA_Timeout(a) ==
    /\ call[a].pc = "verify"
    /\ ~VerifyOpen(call[a].now)
    /\ Leave(a, [call[a] EXCEPT !.ret = "False", !.left_at = "deadline"])
    /\ UNCHANGED << coordVars, lock, clientVars, poll, hist >>

\* async_request_refresh().result() returns once the refresh has run, however it
\* ended and however long (d ticks) it took; then "return True"
PA_RefreshDone(a) ==
    /\ call[a].pc = "refreshing"
    /\ poll[RequestTask].pc = "done"
    /\ poll' = [poll EXCEPT ![RequestTask] = IdlePoll]
    /\ \E d \in {0, DeadlineTicks} :
          Leave(a, [call[a] EXCEPT
                      !.ret = ResultAfterRefresh(poll[RequestTask].ret, @.now + d),
                      !.left_at = "verify",
                      !.refresh_ret = poll[RequestTask].ret,
                      !.refresh_late = call[a].now + d >= DeadlineTicks])
    /\ UNCHANGED << coordVars, lock, clientVars, hist >>

\* the caller has taken the result
PA_Return(a) ==
    /\ call[a].pc = "done"
    /\ call[a].op = "none"
    /\ call' = [call EXCEPT ![a] = IdleCall]
    /\ UNCHANGED << coordVars, lockVars, clientVars, poll, hist >>

\* the event loop runs a queued coordinator.lock.release
LoopRelease ==
    /\ Len(releases) > 0
    /\ lock' = FALSE
    /\ releases' = Tail(releases)
    /\ hist' = [hist EXCEPT !.holders = @ \ {Head(releases)}]
    /\ UNCHANGED << coordVars, clientVars, poll, call >>

PerformAction(a) ==
    \/ PA_Call(a)
    \/ PA_Acquire(a)
    \/ PA_InitialRead(a)
    \/ PA_Trigger(a)
    \/ PA_Verify(a)
    \/ PA_Timeout(a)
    \/ PA_RefreshDone(a)
    \/ PA_Return(a)

\* the refresh a succeeding command asked for and waits for
RequestedRefresh ==
    /\ \E a \in Callers : call[a].pc \in {"refreshing", "op_refreshing"}
    /\ \/ Refresh_Begin(RequestTask)
       \/ Fetch_Direct(RequestTask)
       \/ Fetch_Logout(RequestTask)
       \/ Fetch_SubmitLogin(RequestTask)
       \/ Fetch_SubmitPin(RequestTask)
       \/ Fetch_Reread(RequestTask)
       \/ Refresh_Finish(RequestTask)

\* a complete page of the panel, armed
GoodPage ==
    [alarm_status |-> Some("OΠΛIΣMENO"), battery_volt |-> Some(135),
     ac_power |-> Some(TRUE), zones |-> << Zone1, Zone2 >>]

\* states the pollers leave behind with no refresh in flight: nothing polled yet,
\* one good refresh (the panel's session alive or expired since), or one refresh
\* that logged in and then failed every read; the entry options are one attempt
\* per refresh, a threshold of one and analytics off
InitAction ==
    /\ max_consecutive_failures = 1
    /\ max_total_attempts = 1
    /\ _poll_lock = FALSE
    /\ lock = FALSE
    /\ releases = << >>
    /\ _send_analytics = FALSE
    /\ poll = [r \in Refreshers |-> IdlePoll]
    /\ call = [a \in Callers |-> IdleCall]
    /\ \/ /\ _last_data = None
          /\ _consecutive_failures = 0
          /\ _session_authenticated = FALSE
          /\ session = "none"
          /\ _analytics_sent = FALSE
       \/ /\ _last_data = Some(Snapshot(GoodPage))
          /\ _consecutive_failures = 0
          /\ _session_authenticated = TRUE
          /\ session \in {"pin", "none"}
          /\ _analytics_sent = FALSE
       \/ /\ _last_data = None
          /\ _consecutive_failures = 1
          /\ _session_authenticated = TRUE
          /\ session = "pin"
          /\ _analytics_sent = FALSE
    /\ hist = [fails |-> _consecutive_failures, good |-> _last_data,
               logged_out |-> FALSE, login_failed |-> FALSE, holders |-> {}, posts |-> 0]
    /\ UnitsIdle

NextAction ==
    /\ LoopRelease \/ RequestedRefresh \/ \E a \in Callers : PerformAction(a)
    /\ UNCHANGED unitVars

\* the command side alone, with the refresh a command asks for
SpecAction == InitAction /\ [][NextAction]_vars

\* a perform_action has returned and its caller has not yet taken the result
ResultPending == \E a \in Callers : call[a].pc = "done"

\* what runs without waiting for anything but itself: the executor thread inside
\* perform_action once it holds the lock, the refresh it has asked the event loop
\* for, and the callbacks queued on the event loop
InsideTry(a) ==
    \/ PA_InitialRead(a)
    \/ PA_Trigger(a)
    \/ PA_Verify(a)
    \/ PA_Timeout(a)
    \/ PA_RefreshDone(a)

ActionSteps ==
    \/ LoopRelease
    \/ RequestedRefresh
    \/ \E a \in Callers : InsideTry(a)

\* the command side where a returned result is taken before anything else runs
\* (the return of perform_action and its caller's next statement are one step of
\* the same thread)
NextActionLive ==
    /\ \/ \E a \in Callers : PA_Return(a)
       \/ ~ResultPending /\ (LoopRelease \/ RequestedRefresh)
       \/ ~ResultPending /\ \E a \in Callers : PA_Call(a) \/ PA_Acquire(a) \/ InsideTry(a)
    /\ UNCHANGED unitVars

\* threads and event loop keep running: a result is taken, and a step that stays
\* possible is taken (it is only while a result is being taken that the step is
\* held back here, hence the strong form)
ThreadsRun ==
    /\ WF_vars((\E a \in Callers : PA_Return(a)) /\ UNCHANGED unitVars)
    /\ SF_vars(~ResultPending /\ ActionSteps /\ UNCHANGED unitVars)

\* asyncio.Lock wakes its waiters first come, first served, and a new acquire()
\* queues behind them: a waiter is not overtaken for ever
LockIsFair ==
    \A a \in Callers : SF_vars(~ResultPending /\ PA_Acquire(a) /\ UNCHANGED unitVars)

\* the command side with threads and event loop that keep running
SpecActionLive == InitAction /\ [][NextActionLive]_vars /\ ThreadsRun /\ LockIsFair

(* ----------------------------------------------------------------------- *)
(* SigmaAlarmPanel: the entity's commands                                  *)
(* ----------------------------------------------------------------------- *)

\* the caller of the specifications that follow one command at a time
Commander == "a1"

\* SigmaAlarmPanel.alarm_state: coordinator.data.get("status") -> the panel state
alarm_state_PerimeterAsAway(status) ==
    CASE status = Some("Disarmed") -> Some("DISARMED")
      [] status = Some("Armed") -> Some("ARMED_AWAY")
      [] status = Some("Armed Perimeter") -> Some("ARMED_AWAY")
      [] OTHER -> None

alarm_state(status) ==
    CASE status = Some("Disarmed") -> Some("DISARMED")
      [] status = Some("Armed") -> Some("ARMED_AWAY")
      [] status = Some("Armed Perimeter") -> Some("ARMED_HOME")
      [] OTHER -> None

\* the entity operations and the action name each hands to perform_action
EntityOps == {"async_alarm_disarm", "async_alarm_arm_away", "async_alarm_arm_home"}

EntityAction_HomeAsAway(op) ==
    CASE op = "async_alarm_disarm" -> "disarm"
      [] op = "async_alarm_arm_away" -> "arm"
      [] op = "async_alarm_arm_home" -> "arm"

EntityAction(op) ==
    CASE op = "async_alarm_disarm" -> "disarm"
      [] op = "async_alarm_arm_away" -> "arm"
      [] op = "async_alarm_arm_home" -> "stay"

\* async_alarm_*: perform_action is handed to the executor
Entity_Call(a) ==
    /\ call[a].pc = "idle"
    /\ \E op \in EntityOps :
          call' = [call EXCEPT ![a] =
                     IF ValidAction(EntityAction(op))
                     THEN [IdleCall EXCEPT !.pc = "waiting", !.action = EntityAction(op),
                                          !.op = op, !.op_calls = 1]
                     ELSE [IdleCall EXCEPT !.pc = "done", !.action = EntityAction(op),
                                          !.ret = "False", !.left_at = "check", !.op = op,
                                          !.op_calls = 1]]
    /\ UNCHANGED << coordVars, lockVars, clientVars, poll, hist >>

\* async_alarm_*: the awaited job ends; its result is dropped, its exception is not
Entity_AfterAction(a) ==
    /\ call[a].pc = "done"
    /\ call[a].op # "none"
    /\ call' = [call EXCEPT ![a] =
                  IF call[a].ret = "raised"
                  THEN [@ EXCEPT !.pc = "op_done", !.op_ret = "raised"]
                  ELSE [@ EXCEPT !.pc = "op_refresh"]]
    /\ UNCHANGED << coordVars, lockVars, clientVars, poll, hist >>

\* _double_refresh: sleep, then await coordinator.async_request_refresh()
Entity_Refresh(a) ==
    /\ call[a].pc = "op_refresh"
    /\ call[a].op_refreshes < 2
    /\ \/ /\ poll[RequestTask].pc = "idle"
          /\ _consecutive_failures < MaxStreak
          /\ poll' = [poll EXCEPT ![RequestTask].pc = "queued"]
          /\ call' = [call EXCEPT ![a].pc = "op_refreshing"]
       \/ /\ poll' = poll
          /\ call' = [call EXCEPT ![a].op_refreshes = @ + 1]
    /\ UNCHANGED << coordVars, lockVars, clientVars, hist >>

\* _double_refresh: the awaited refresh has run; a failed update is not raised
Entity_RefreshDone(a) ==
    /\ call[a].pc = "op_refreshing"
    /\ poll[RequestTask].pc = "done"
    /\ poll' = [poll EXCEPT ![RequestTask] = IdlePoll]
    /\ call' = [call EXCEPT ![a].pc = "op_refresh", ![a].op_refreshes = @ + 1]
    /\ UNCHANGED << coordVars, lockVars, clientVars, hist >>

\* async_alarm_*: after the second refresh the operation returns None
Entity_Finish(a) ==
    /\ call[a].pc = "op_refresh"
    /\ call[a].op_refreshes = 2
    /\ call' = [call EXCEPT ![a].pc = "op_done", ![a].op_ret = "completed"]
    /\ UNCHANGED << coordVars, lockVars, clientVars, poll, hist >>

\* the service call that invoked the entity has taken the outcome
Entity_Return(a) ==
    /\ call[a].pc = "op_done"
    /\ call' = [call EXCEPT ![a] = IdleCall]
    /\ UNCHANGED << coordVars, lockVars, clientVars, poll, hist >>

EntityOp(a) ==
    \/ Entity_Call(a)
    \/ PA_Acquire(a)
    \/ PA_InitialRead(a)
    \/ PA_Trigger(a)
    \/ PA_Verify(a)
    \/ PA_Timeout(a)
    \/ PA_RefreshDone(a)
    \/ Entity_AfterAction(a)
    \/ Entity_Refresh(a)
    \/ Entity_RefreshDone(a)
    \/ Entity_Finish(a)
    \/ Entity_Return(a)

NextEntity ==
    /\ LoopRelease \/ RequestedRefresh \/ EntityOp(Commander)
    /\ UNCHANGED unitVars

\* commands given through the alarm panel entity, one at a time
SpecEntity == InitAction /\ [][NextEntity]_vars

\* the refresh task that serves the coordinator's update timer
TimerTask == "r1"

\* the update timer's refresh: _async_update_data under _poll_lock only
TimerRefresh ==
    \/ Refresh_Request(TimerTask)
    \/ Refresh_Begin(TimerTask)
    \/ Fetch_Direct(TimerTask)
    \/ Fetch_Logout(TimerTask)
    \/ Fetch_SubmitLogin(TimerTask)
    \/ Fetch_SubmitPin(TimerTask)
    \/ Fetch_Reread(TimerTask)
    \/ Refresh_Finish(TimerTask)
    \/ Refresh_Return(TimerTask)

NextBoth ==
    /\ LoopRelease \/ RequestedRefresh \/ PerformAction(Commander) \/ TimerRefresh
    /\ UNCHANGED unitVars

\* one command at a time while the update timer keeps polling
SpecBoth == InitAction /\ [][NextBoth]_vars

\* concurrent commands while the update timer keeps polling; a returned result is
\* taken before anything else runs
\* the timer's refresh between taking _poll_lock and giving it back
TimerUnderPollLock ==
    \/ Fetch_Direct(TimerTask)
    \/ Fetch_Logout(TimerTask)
    \/ Fetch_SubmitLogin(TimerTask)
    \/ Fetch_SubmitPin(TimerTask)
    \/ Fetch_Reread(TimerTask)
    \/ Refresh_Finish(TimerTask)

TimerSteps ==
    \/ Refresh_Begin(TimerTask)
    \/ Fetch_Direct(TimerTask)
    \/ Fetch_Logout(TimerTask)
    \/ Fetch_SubmitLogin(TimerTask)
    \/ Fetch_SubmitPin(TimerTask)
    \/ Fetch_Reread(TimerTask)
    \/ Refresh_Finish(TimerTask)

\* a result that waits to be taken: of a command, or of the timer's refresh while
\* no command waits for a refresh
OutcomePending ==
    \/ ResultPending
    \/ /\ poll[TimerTask].pc = "done"
       /\ \A a \in Callers : call[a].pc \notin {"refreshing", "op_refreshing"}

NextLocks ==
    /\ \/ \E a \in Callers : PA_Return(a)
       \/ ~ResultPending /\ Refresh_Return(TimerTask)
       \/ ~OutcomePending /\ (LoopRelease \/ RequestedRefresh)
       \/ ~OutcomePending /\ \E a \in Callers : PA_Call(a) \/ PA_Acquire(a) \/ InsideTry(a)
       \/ ~OutcomePending /\ (Refresh_Request(TimerTask) \/ TimerSteps)
    /\ UNCHANGED unitVars

SpecLocks == InitAction /\ [][NextLocks]_vars

\* one command at a time beside the timer, with threads and event loop that keep
\* running and both locks first come, first served
NextBothLive ==
    /\ \/ PA_Return(Commander)
       \/ ~ResultPending /\ Refresh_Return(TimerTask)
       \/ ~OutcomePending /\ (LoopRelease \/ RequestedRefresh)
       \/ ~OutcomePending /\ (PA_Call(Commander) \/ PA_Acquire(Commander)
                                \/ InsideTry(Commander))
       \/ ~OutcomePending /\ (Refresh_Request(TimerTask) \/ TimerSteps)
    /\ UNCHANGED unitVars

SpecBothLive ==
    /\ InitAction
    /\ [][NextBothLive]_vars
    /\ WF_vars(PA_Return(Commander) /\ UNCHANGED unitVars)
    /\ WF_vars(~ResultPending /\ Refresh_Return(TimerTask) /\ UNCHANGED unitVars)
    /\ SF_vars(~OutcomePending /\ ActionSteps /\ UNCHANGED unitVars)
    /\ SF_vars(~OutcomePending /\ TimerUnderPollLock /\ UNCHANGED unitVars)

\* under SpecBothLive: the wait for the requested refresh ends
RefreshWaitEnds == (call[Commander].pc = "refreshing") ~> (call[Commander].pc = "done")

(* ----------------------------------------------------------------------- *)
(* The helper functions, one call at a time                                *)
(* ----------------------------------------------------------------------- *)

\* the coordinator and its client at rest, nothing running
ProgIdle ==
    /\ _last_data = None
    /\ _consecutive_failures = 0
    /\ max_consecutive_failures = MaxThreshold
    /\ max_total_attempts = MaxAttempts
    /\ _poll_lock = FALSE
    /\ lock = FALSE
    /\ releases = << >>
    /\ _session_authenticated = FALSE
    /\ session = "none"
    /\ _send_analytics = TRUE
    /\ _analytics_sent = FALSE
    /\ poll = [r \in Refreshers |-> IdlePoll]
    /\ call = [a \in Callers |-> IdleCall]
    /\ hist = [fails |-> 0, good |-> None, logged_out |-> FALSE, login_failed |-> FALSE,
               holders |-> {}, posts |-> 0]

\* status lines that are not keys of the mapping: other case, padded, the same
\* words in Greek letters only and in Latin letters only, a prefix, the empty str
StatusNearMisses ==
    {"", "UNKNOWN STATUS", UnknownRaw, "oπλiσmeno", " OΠΛIΣMENO", "OΠΛIΣMENO ",
     "ΟΠΛΙΣΜΕΝΟ", "OPLISMENO", "ΑΦΟΠΛΙΣΜΕΝΟ", "OΠΛIΣMENO ME ZΩNEΣ",
     "ΠEPIMETPIKH  OΠΛIΣH", "ΠΕΡΙΜΕΤΡΙΚΗ ΟΠΛΙΣΗ", "Armed", "Disarmed"}

\* Unicode's pairs << lower-case letter, its upper-case letter >> for the letters of
\* the tokens
CasePairs ==
    {<< c + 32, c >> : c \in (65..90) \cup (913..929) \cup (931..937)}
        \cup {<< 962, 931 >>, << 305, 73 >>, << 383, 83 >>, << 837, 921 >>, << 942, 905 >>}

\* letters of the other script, or without the accent, that look like c
Lookalikes(c) ==
    LET pairs == {<< 65, 913 >>, << 69, 917 >>, << 73, 921 >>, << 78, 925 >>,
                  << 79, 927 >>, << 84, 932 >>, << 88, 935 >>, << 942, 951 >>,
                  << 959, 111 >>, << 945, 97 >>}
    IN  {q[2] : q \in {r \in pairs : r[1] = c}} \cup {q[1] : q \in {r \in pairs : r[2] = c}}

\* what a page may carry in the place of the letter c: the letter in either case,
\* the other letters of the same upper case, and its look-alikes
Alts(c) ==
    LET uppers == {c} \cup {q[2] : q \in {r \in CasePairs : r[1] = c}}
        lowers == {q[1] : q \in {r \in CasePairs : r[2] \in uppers}}
    IN  uppers \cup lowers \cup Lookalikes(c)

RECURSIVE Spellings(_)
Spellings(w) ==
    IF w = << >> THEN {<< >>}
    ELSE {<< c >> \o t : c \in Alts(Head(w)), t \in Spellings(Tail(w))}

\* space and no-break space, up to n of them
PadChars == {32, 160}

RECURSIVE Pads(_)
Pads(n) ==
    IF n = 0 THEN {<< >>}
    ELSE Pads(n - 1) \cup {<< c >> \o q : c \in PadChars, q \in Pads(n - 1)}

\* every spelling of the word w with up to MaxPad whitespace on either side
Padded(w) == {l \o t \o r : l \in Pads(MaxPad), t \in Spellings(w), r \in Pads(MaxPad)}

\* other cell texts: unknown words, whitespace only, a space inside the word
OtherTokens ==
    {<< 32 >>, << 160, 32 >>, << 109, 97, 121, 98, 101 >>, << 78, 32, 65, 73 >>, << 78, 65, 73, 33 >>,
     << 78, 65 >>, Str_Closed, << 85, 110, 107, 110, 111, 119, 110, 32 >>}

BoolTokens == UNION {Padded(w) : w \in {Str_NAI_el, Str_NAI, Str_YES, Str_TRUE,
                                        Str_OXI, Str_NO, Str_FALSE}} \cup OtherTokens

OpenClosedTokens == UNION {Padded(w) : w \in {Str_kleisti, Str_anoikti}} \cup OtherTokens

\* the first n characters of s, and c repeated n times
Take(s, n) == SubSeq(s, 1, n)

Rep(c, n) == [k \in 1..n |-> c]

\* secrets of digits and of Greek letters, tokens as the login form carries them
Secrets == {Rep(c, n) : c \in {49, 954}, n \in 0..MaxSecretLen}

TokenBase == << 97, 98, 99, 100, 101, 102, 103, 104, 105, 106, 107, 108, 109, 110, 111, 112, 113, 114, 115, 116, 117, 118, 119, 120, 121, 122 >>

Tokens == {Take(TokenBase, n) : n \in {0, 1, MaxTokenLen}}

\* host strings as a user may type them: with or without a scheme (also doubled,
\* in capitals), with or without a port (also doubled, empty, not a number,
\* followed by a line feed, in Arabic-Indic digits), padded or not
HostSchemes ==
    {<< >>, Str_http, Str_https, Str_http \o Str_https, << 72, 84, 84, 80, 58, 47, 47 >>}

HostNames == {<< >>, << 97 >>, << 49, 46, 50 >>}

HostPorts ==
    {<< >>, << 58, 56, 48 >>, << 58, 56, 58, 57 >>, << 58 >>, << 58, 56, 97 >>,
     << 58, 56, 10 >>, << 58, 1640 >>}

Hosts ==
    {l \o scheme \o name \o port \o r :
        l \in Pads(MaxPad), scheme \in HostSchemes, name \in HostNames,
        port \in HostPorts, r \in Pads(MaxPad)}

\* one call of a helper, its argument drawn
InitHelpers ==
    /\ ProgIdle
    /\ RETRY_ATTEMPTS_FOR_HTML = ModuleHtmlAttempts
    /\ RETRY_BACKOFF_FACTOR = ModuleBackoff
    /\ entries = [e \in Entries |-> NoEntry]
    /\ wrapper = IdleWrapper
    /\ sess = FirstSession
    /\ \/ \E raw \in {None} \cup {Some(r) : r \in KnownRaw \cup StatusNearMisses} :
              fn = [name |-> "parse_alarm_status", pc |-> "call", val |-> raw]
       \/ \E val \in {None, Some(<< >>)} \cup {Some(t) : t \in BoolTokens} :
              fn = [name |-> "_to_bool", pc |-> "call", val |-> val]
       \/ \E val \in {None, Some(<< >>)} \cup {Some(t) : t \in OpenClosedTokens} :
              fn = [name |-> "_to_openclosed", pc |-> "call", val |-> val]
       \/ \E secret \in Secrets, token \in Tokens :
              fn = [name |-> "_encrypt", pc |-> "call", secret |-> secret,
                    token |-> token]
       \/ \E raw_host \in Hosts :
              fn = [name |-> "sanitize_host", pc |-> "call", val |-> raw_host]
       \/ \E raw \in {None} \cup {Some(r) : r \in KnownRaw \cup StatusNearMisses} :
              fn = [name |-> "sigma_alarm.alarm_state", pc |-> "call", val |-> raw]

Call_parse_alarm_status ==
    /\ fn.name = "parse_alarm_status" /\ fn.pc = "call"
    /\ fn' = [name |-> fn.name, pc |-> "done", val |-> fn.val, ret |-> parse_alarm_status(fn.val)]
    /\ UNCHANGED << progVars, RETRY_ATTEMPTS_FOR_HTML, RETRY_BACKOFF_FACTOR, entries,
                    wrapper, sess >>

Call_to_bool ==
    /\ fn.name = "_to_bool" /\ fn.pc = "call"
    /\ fn' = [name |-> fn.name, pc |-> "done", val |-> fn.val, ret |-> _to_bool(fn.val)]
    /\ UNCHANGED << progVars, RETRY_ATTEMPTS_FOR_HTML, RETRY_BACKOFF_FACTOR, entries,
                    wrapper, sess >>

Call_to_openclosed ==
    /\ fn.name = "_to_openclosed" /\ fn.pc = "call"
    /\ fn' = [name |-> fn.name, pc |-> "done", val |-> fn.val, ret |-> _to_openclosed(fn.val)]
    /\ UNCHANGED << progVars, RETRY_ATTEMPTS_FOR_HTML, RETRY_BACKOFF_FACTOR, entries,
                    wrapper, sess >>

\* random.randint(1, 7) gives num
Call_encrypt ==
    /\ fn.name = "_encrypt" /\ fn.pc = "call"
    /\ \E num \in 1..7 :
          fn' = [name |-> fn.name, pc |-> "done", secret |-> fn.secret, token |-> fn.token,
                 num |-> num, ret |-> _encrypt(fn.secret, fn.token, num)]
    /\ UNCHANGED << progVars, RETRY_ATTEMPTS_FOR_HTML, RETRY_BACKOFF_FACTOR, entries,
                    wrapper, sess >>

\* sanitize_host of a host string, and sanitize_host of what that returned
Call_sanitize_host ==
    /\ fn.name = "sanitize_host" /\ fn.pc = "call"
    /\ fn' = [name |-> fn.name, pc |-> "done", val |-> fn.val,
              ret |-> sanitize_host(fn.val),
              again |-> sanitize_host(sanitize_host(fn.val))]
    /\ UNCHANGED << progVars, RETRY_ATTEMPTS_FOR_HTML, RETRY_BACKOFF_FACTOR, entries,
                    wrapper, sess >>

\* the sigma_alarm variant: its coordinator stores parse_alarm_status's status of
\* the page's status line, its entity reads alarm_state from it
Call_sigma_alarm_state ==
    /\ fn.name = "sigma_alarm.alarm_state" /\ fn.pc = "call"
    /\ fn' = [name |-> fn.name, pc |-> "done", val |-> fn.val,
              status |-> sigma_alarm_parse_alarm_status(fn.val)[1],
              ret |-> sigma_alarm_alarm_state(sigma_alarm_parse_alarm_status(fn.val)[1])]
    /\ UNCHANGED << progVars, RETRY_ATTEMPTS_FOR_HTML, RETRY_BACKOFF_FACTOR, entries,
                    wrapper, sess >>

NextHelpers ==
    \/ Call_sigma_alarm_state
    \/ Call_parse_alarm_status
    \/ Call_to_bool
    \/ Call_to_openclosed
    \/ Call_encrypt
    \/ Call_sanitize_host

\* the pure helpers of the client, each applied to one drawn argument
SpecHelpers == InitHelpers /\ [][NextHelpers]_vars

(* ----------------------------------------------------------------------- *)
(* Configuration: coordinators of several entries, the retry wrapper       *)
(* ----------------------------------------------------------------------- *)

\* const.py: DEFAULT_RETRY_ATTEMPTS_FOR_HTML = 3, DEFAULT_RETRY_BACKOFF_FACTOR = 0.5
DEFAULT_RETRY_ATTEMPTS_FOR_HTML == 3

DEFAULT_RETRY_BACKOFF_FACTOR == 1

\* opts.get(key, default) where the entry holds value under key, or nothing
opts_get(value, default) == IF value = None THEN default ELSE value[1]

\* the password and the PINs the entries are set up with
Str_password == << 32, 112, 119 >>    \* " pw"

Str_pin_options == << 32, 49, 50, 32 >>    \* " 12 "

Str_pin_data == << 51, 52 >>    \* "34"

\* a config entry before its coordinator is constructed
EntryStates ==
    [ran     : {FALSE},
     client  : {None},
     options : [retry_attempts_for_html : {None} \cup {Some(n) : n \in 0..MaxHtmlAttempts},
                retry_backoff_factor    : {None} \cup {Some(b) : b \in 0..MaxBackoff},
                pin                     : {None, Some(Str_pin_options)}],
     data    : [password : {Str_password},
                pin      : {None, Some(Str_pin_data)}]]

\* SigmaCoordinator.__init__: the keyword arguments of its SigmaClient(...) call
\* next to base_url, username and password
ClientKwargs == {"coordinator", "send_analytics"}

\* SigmaClient.__init__ as Python binds the call: pin has no default, so a call
\* without it raises TypeError; otherwise self.pin = (pin or password).strip()
SigmaClient_init(kwargs, pin, password) ==
    IF "pin" \notin kwargs
    THEN [raised |-> "TypeError", pin |-> None]
    ELSE [raised |-> "none",
          pin |-> Some(strip(IF not_val(pin) THEN password ELSE pin[1]))]

\* SigmaCoordinator.__init__ for entry e: the module globals are overwritten from
\* the entry's options, then the client is constructed
Coordinator_Init(e) ==
    /\ ~entries[e].ran
    /\ RETRY_ATTEMPTS_FOR_HTML' =
           opts_get(entries[e].options.retry_attempts_for_html, DEFAULT_RETRY_ATTEMPTS_FOR_HTML)
    /\ RETRY_BACKOFF_FACTOR' =
           opts_get(entries[e].options.retry_backoff_factor, DEFAULT_RETRY_BACKOFF_FACTOR)
    /\ entries' = [entries EXCEPT ![e].ran = TRUE,
                                  ![e].client = Some(SigmaClient_init(ClientKwargs,
                                                         None,
                                                         entries[e].data.password))]
    /\ UNCHANGED << progVars, wrapper, sess, fn >>

\* retry_html_request: "except (AttributeError, IndexError, TypeError)"
ParseErrors == {"AttributeError", "IndexError", "TypeError"}

\* what one invocation of the wrapped function may raise besides
OtherErrors == {"HTTPError"}

Retried_AnyException(exc) == TRUE

Retried_RuntimeErrorToo(exc) == exc \in ParseErrors \cup {"RuntimeError"}

Retried(exc) == exc \in ParseErrors

\* wrapper(): "for attempt in range(1, RETRY_ATTEMPTS_FOR_HTML + 1)" reads the
\* module global once; with no attempt to make, RuntimeError at once
Wrapper_Call ==
    /\ wrapper.pc = "idle"
    /\ wrapper' = IF RETRY_ATTEMPTS_FOR_HTML >= 1
                  THEN [IdleWrapper EXCEPT !.pc = "try", !.n = RETRY_ATTEMPTS_FOR_HTML,
                                           !.attempt = 1]
                  ELSE [IdleWrapper EXCEPT !.pc = "done", !.n = RETRY_ATTEMPTS_FOR_HTML,
                                           !.out = "RuntimeError"]
    /\ UNCHANGED << progVars, RETRY_ATTEMPTS_FOR_HTML, RETRY_BACKOFF_FACTOR, entries,
                    sess, fn >>

\* wrapper(): "return func(*args, **kwargs)" returns, raises a retried exception,
\* or raises another one, which leaves the wrapper
Wrapper_Invoke ==
    /\ wrapper.pc = "try"
    /\ \E outcome \in {"returned"} \cup ParseErrors \cup OtherErrors :
          wrapper' =
              IF outcome = "returned"
              THEN [wrapper EXCEPT !.pc = "done", !.out = "returned",
                                   !.trace = Append(@, "returned")]
              ELSE IF Retried(outcome)
              THEN [wrapper EXCEPT !.pc = "sleep", !.exc = outcome,
                                   !.trace = Append(@, IF outcome \in ParseErrors
                                                       THEN "parse" ELSE "other")]
              ELSE [wrapper EXCEPT !.pc = "done", !.out = outcome,
                                   !.trace = Append(@, "other")]
    /\ UNCHANGED << progVars, RETRY_ATTEMPTS_FOR_HTML, RETRY_BACKOFF_FACTOR, entries,
                    sess, fn >>

\* wrapper(): the warning and time.sleep(RETRY_BACKOFF_FACTOR * 2 ** (attempt - 1))
\* after a retried exception, then the next attempt or, after the last,
\* RuntimeError
Wrapper_Sleep ==
    /\ wrapper.pc = "sleep"
    /\ wrapper' = IF wrapper.attempt < wrapper.n
                  THEN [wrapper EXCEPT !.pc = "try", !.attempt = @ + 1, !.exc = "none",
                                       !.sleeps = @ + 1]
                  ELSE [wrapper EXCEPT !.pc = "done", !.out = "RuntimeError",
                                       !.exc = "none", !.sleeps = @ + 1]
    /\ UNCHANGED << progVars, RETRY_ATTEMPTS_FOR_HTML, RETRY_BACKOFF_FACTOR, entries,
                    sess, fn >>

\* the call of the wrapped function is over
Wrapper_Return ==
    /\ wrapper.pc = "done"
    /\ wrapper' = IdleWrapper
    /\ UNCHANGED << progVars, RETRY_ATTEMPTS_FOR_HTML, RETRY_BACKOFF_FACTOR, entries,
                    sess, fn >>

(* ----------------------------------------------------------------------- *)
(* Wrapped functions that call wrapped functions                           *)
(* ----------------------------------------------------------------------- *)

\* _submit_login, _submit_pin (and _fetch_partition_status): the wrapped function
\* starts with a call of the wrapped _get_soup (select_partition), whose wrapper
\* reads the module global for its own loop
Outer_GetSoup ==
    /\ wrapper.pc = "try"
    /\ wrapper.inner.pc = "idle"
    /\ wrapper' = [wrapper EXCEPT !.inner =
                      IF RETRY_ATTEMPTS_FOR_HTML >= 1
                      THEN [NoInner EXCEPT !.pc = "try", !.n = RETRY_ATTEMPTS_FOR_HTML,
                                           !.attempt = 1]
                      ELSE [NoInner EXCEPT !.pc = "done", !.out = "RuntimeError"]]
    /\ UNCHANGED << progVars, RETRY_ATTEMPTS_FOR_HTML, RETRY_BACKOFF_FACTOR, entries,
                    sess, fn >>

\* the inner wrapper(): one invocation of _get_soup returns, raises a retried
\* exception, or raises another one, which leaves the inner wrapper
Inner_Invoke ==
    /\ wrapper.inner.pc = "try"
    /\ \E outcome \in {"returned"} \cup ParseErrors \cup OtherErrors :
          wrapper' =
              IF outcome = "returned"
              THEN [wrapper EXCEPT !.inner.pc = "done", !.inner.out = "returned",
                                   !.inner.trace = Append(@, "returned")]
              ELSE IF Retried(outcome)
              THEN [wrapper EXCEPT !.inner.pc = "sleep",
                                   !.inner.trace = Append(@, IF outcome \in ParseErrors
                                                             THEN "parse" ELSE "other")]
              ELSE [wrapper EXCEPT !.inner.pc = "done", !.inner.out = outcome,
                                   !.inner.trace = Append(@, "other")]
    /\ UNCHANGED << progVars, RETRY_ATTEMPTS_FOR_HTML, RETRY_BACKOFF_FACTOR, entries,
                    sess, fn >>

\* the inner wrapper(): sleep, then the next attempt or, after the last, RuntimeError
Inner_Sleep ==
    /\ wrapper.inner.pc = "sleep"
    /\ wrapper' = IF wrapper.inner.attempt < wrapper.inner.n
                  THEN [wrapper EXCEPT !.inner.pc = "try", !.inner.attempt = @ + 1]
                  ELSE [wrapper EXCEPT !.inner.pc = "done", !.inner.out = "RuntimeError"]
    /\ UNCHANGED << progVars, RETRY_ATTEMPTS_FOR_HTML, RETRY_BACKOFF_FACTOR, entries,
                    sess, fn >>

\* the rest of the outer invocation: an exception of the inner call leaves the
\* function as it is (the function catches nothing); after a soup the function
\* returns, raises a parse error (soup.find(...)["value"]) or another exception
\* (the POST); the outer wrapper retries or lets go as for any wrapped function
Outer_Body ==
    /\ wrapper.pc = "try"
    /\ wrapper.inner.pc = "done"
    /\ \E outcome \in IF wrapper.inner.out = "returned"
                      THEN {"returned"} \cup ParseErrors \cup OtherErrors
                      ELSE {wrapper.inner.out} :
          LET mark == IF outcome = "returned" THEN "returned"
                      ELSE IF outcome \in ParseErrors THEN "parse"
                      ELSE IF wrapper.inner.out = "RuntimeError" THEN "exhausted"
                      ELSE "other"
              w == [wrapper EXCEPT !.inner = NoInner, !.trace = Append(@, mark)]
          IN  wrapper' =
                  IF outcome = "returned"
                  THEN [w EXCEPT !.pc = "done", !.out = "returned"]
                  ELSE IF Retried(outcome)
                  THEN [w EXCEPT !.pc = "sleep", !.exc = outcome]
                  ELSE [w EXCEPT !.pc = "done", !.out = outcome]
    /\ UNCHANGED << progVars, RETRY_ATTEMPTS_FOR_HTML, RETRY_BACKOFF_FACTOR, entries,
                    sess, fn >>

\* the module global as the import or a coordinator's construction has left it
InitNested ==
    /\ ProgIdle
    /\ RETRY_ATTEMPTS_FOR_HTML \in
           {ModuleHtmlAttempts} \cup
           {opts_get(o, DEFAULT_RETRY_ATTEMPTS_FOR_HTML) :
               o \in {None} \cup {Some(n) : n \in 0..MaxHtmlAttempts}}
    /\ RETRY_BACKOFF_FACTOR = ModuleBackoff
    /\ entries = [e \in Entries |-> NoEntry]
    /\ wrapper = IdleWrapper
    /\ sess = FirstSession
    /\ fn = NoCall

NextNested ==
    \/ Wrapper_Call
    \/ Outer_GetSoup
    \/ Inner_Invoke
    \/ Inner_Sleep
    \/ Outer_Body
    \/ Wrapper_Sleep
    \/ Wrapper_Return

\* calls of a wrapped function whose body calls a wrapped function
SpecNested == InitNested /\ [][NextNested]_vars

\* the module as imported, the entries set up, no coordinator constructed yet
InitConfig ==
    /\ ProgIdle
    /\ RETRY_ATTEMPTS_FOR_HTML = ModuleHtmlAttempts
    /\ RETRY_BACKOFF_FACTOR = ModuleBackoff
    /\ entries \in [Entries -> EntryStates]
    /\ wrapper = IdleWrapper
    /\ sess = FirstSession
    /\ fn = NoCall

NextConfig ==
    \/ \E e \in Entries : Coordinator_Init(e)
    \/ Wrapper_Call
    \/ Wrapper_Invoke
    \/ Wrapper_Sleep
    \/ Wrapper_Return

\* coordinators being constructed while wrapped functions are called
SpecConfig == InitConfig /\ [][NextConfig]_vars

(* ----------------------------------------------------------------------- *)
(* The session object behind client.session                                *)
(* ----------------------------------------------------------------------- *)

\* what session.get may raise (requests.RequestException subclasses)
RequestErrors == {"ConnectionError", "Timeout"}

\* logout(): "except Exception: pass"
Swallowed_Never(exc) == FALSE

Swallowed(exc) == TRUE

\* a request through client.session whose response sets a cookie
Session_Request ==
    /\ sess.pc = "idle"
    /\ ~sess.objs[sess.cur].cookies
    /\ sess' = [sess EXCEPT !.objs[sess.cur].cookies = TRUE]
    /\ UNCHANGED << progVars, RETRY_ATTEMPTS_FOR_HTML, RETRY_BACKOFF_FACTOR, entries,
                    wrapper, fn >>

Logout_Call ==
    /\ sess.pc = "idle"
    /\ Len(sess.objs) < MaxSessions
    /\ sess' = [sess EXCEPT !.pc = "get", !.prev = sess.cur, !.exc = "none",
                            !.out = "none"]
    /\ UNCHANGED << progVars, RETRY_ATTEMPTS_FOR_HTML, RETRY_BACKOFF_FACTOR, entries,
                    wrapper, fn >>

\* logout(): self.session.get(".../logout.html", timeout=5) answers or raises
Logout_Get ==
    /\ sess.pc = "get"
    /\ \E outcome \in {"ok"} \cup RequestErrors :
          sess' = [sess EXCEPT !.pc = "close",
                               !.exc = IF outcome = "ok" \/ Swallowed(outcome)
                                       THEN "none" ELSE outcome,
                               !.out = IF outcome = "ok" THEN "answered" ELSE "failed"]
    /\ UNCHANGED << progVars, RETRY_ATTEMPTS_FOR_HTML, RETRY_BACKOFF_FACTOR, entries,
                    wrapper, fn >>

\* logout(), finally: self.session.close()
Logout_Close ==
    /\ sess.pc = "close"
    /\ sess' = [sess EXCEPT !.pc = "create", !.objs[sess.cur].closed = TRUE]
    /\ UNCHANGED << progVars, RETRY_ATTEMPTS_FOR_HTML, RETRY_BACKOFF_FACTOR, entries,
                    wrapper, fn >>

\* logout(), finally: self.session = self._create_session(); then the call
\* returns, or the exception that was not swallowed leaves it
Logout_Create ==
    /\ sess.pc = "create"
    /\ sess' = [sess EXCEPT !.pc = IF sess.exc = "none" THEN "returned" ELSE "raised",
                            !.objs = Append(@, NewSession),
                            !.cur = Len(sess.objs) + 1]
    /\ UNCHANGED << progVars, RETRY_ATTEMPTS_FOR_HTML, RETRY_BACKOFF_FACTOR, entries,
                    wrapper, fn >>

\* the caller of logout() goes on
Logout_Return ==
    /\ sess.pc \in {"returned", "raised"}
    /\ sess' = [sess EXCEPT !.pc = "idle", !.exc = "none", !.out = "none", !.prev = 0]
    /\ UNCHANGED << progVars, RETRY_ATTEMPTS_FOR_HTML, RETRY_BACKOFF_FACTOR, entries,
                    wrapper, fn >>

InitSession == ProgIdle /\ UnitsIdle

NextSession ==
    \/ Session_Request
    \/ Logout_Call
    \/ Logout_Get
    \/ Logout_Close
    \/ Logout_Create
    \/ Logout_Return

\* one client, its requests and its logouts
SpecSession == InitSession /\ [][NextSession]_vars

Next ==
    /\ \/ SessionExpire
       \/ LoopRelease
       \/ \E r \in Refreshers : Refresh(r)
       \/ \E a \in Callers : PerformAction(a)
    /\ UNCHANGED unitVars

Spec == Init /\ [][Next]_vars

(* ----------------------------------------------------------------------- *)
(* Properties                                                              *)
(* ----------------------------------------------------------------------- *)

\* a refresh task that has finished a refresh whose fetch failed
FailedRefresh(r) == poll[r].pc = "done" /\ poll[r].job = "raised"

\* C1: after a successful refresh and N failing ones in a row, the refresh returns
\* the last good snapshot while 1 <= N < max_consecutive_failures and raises
\* UpdateFailed from N = max_consecutive_failures on, until a fetch succeeds.
C1_StaleThenFail ==
    \A r \in Refreshers :
        (FailedRefresh(r) /\ poll[r].h_good # None) =>
            /\ (1 <= poll[r].h_n /\ poll[r].h_n < max_consecutive_failures) =>
                   (poll[r].ret = "returned" /\ poll[r].value = poll[r].h_good)
            /\ poll[r].h_n >= max_consecutive_failures => poll[r].ret = "raised"

\* a streak one longer than the threshold still raises, after stale data was served
C1_Witness ==
    \E r \in Refreshers :
        /\ FailedRefresh(r)
        /\ poll[r].h_good # None
        /\ max_consecutive_failures >= 2
        /\ poll[r].h_n = max_consecutive_failures + 1
        /\ poll[r].ret = "raised"

\* a snapshot with a resolved status, a battery reading and at least one zone
Complete(snap) ==
    /\ snap.status \in {Some("Disarmed"), Some("Armed"), Some("Armed Perimeter")}
    /\ snap.battery_volt # None
    /\ Len(snap.zones) > 0

\* C2: whatever a refresh returns, fresh or stale, whatever _last_data holds and
\* whatever a fetch hands back is a complete snapshot; an incomplete page is an error.
C2_OnlyCompleteSnapshots ==
    /\ _last_data # None => Complete(_last_data[1])
    /\ \A r \in Refreshers :
          /\ poll[r].job = "returned" => Complete(poll[r].result[1])
          /\ poll[r].ret = "returned" => Complete(poll[r].value[1])

\* a failed fetch answered with the stale, complete snapshot
C2_Witness ==
    \E r \in Refreshers :
        /\ FailedRefresh(r)
        /\ poll[r].ret = "returned"
        /\ poll[r].value = _last_data
        /\ Complete(poll[r].value[1])

\* an invocation between taking the lock and leaving the read-trigger-verify sequence
InSequence(a) == call[a].pc \in {"read", "trigger", "verify", "refreshing"}

\* C3: at most one perform_action is between acquiring and releasing coordinator.lock,
\* and a second one has issued none of its requests while the first is in its sequence.
C3_Serialized ==
    /\ Cardinality(hist.holders) <= 1
    /\ \A a \in Callers :
          InSequence(a) =>
            /\ a \in hist.holders
            /\ \A b \in Callers \ {a} :
                  /\ ~InSequence(b)
                  /\ call[b].pc = "waiting" =>
                        (call[b].reads = 0 /\ call[b].triggers = 0 /\ ~call[b].verified)

\* one command is verifying while the other waits for the lock
C3_Witness ==
    \E a, b \in Callers :
        a # b /\ call[a].pc = "verify" /\ call[a].verified /\ call[b].pc = "waiting"

\* C4: perform_action reports every failure as False and never raises.
C4_NeverRaises == \A a \in Callers : call[a].ret # "raised"

\* C5 as stated: no verification read returning the target before the deadline
\* means False; no read starts after the deadline; a failing read is absorbed.
C5_FalseUnlessSeenBeforeDeadline ==
    \A a \in Callers :
        /\ (call[a].pc = "done" /\ call[a].triggered /\ ~call[a].seen_in_time) =>
              call[a].ret = "False"
        /\ ~call[a].late_read
        /\ call[a].ret = "raised" => call[a].left_at \in {"read", "trigger"}

\* C5 amended: no verification read started before the deadline returning the
\* target means False; no read starts after the deadline; a failing read is absorbed.
C5_FalseUnlessSeen ==
    \A a \in Callers :
        /\ (call[a].pc = "done" /\ call[a].triggered /\ ~call[a].seen) =>
              (call[a].ret = "False" /\ call[a].left_at = "deadline")
        /\ ~call[a].late_read
        /\ call[a].ret = "raised" => call[a].left_at \in {"read", "trigger"}
        /\ (call[a].pc = "verify" /\ call[a].absorbed) => call[a].ret = "none"

\* a triggered command ran into the deadline without seeing its target
C5_Witness ==
    \E a \in Callers :
        /\ call[a].pc = "done"
        /\ call[a].triggered
        /\ call[a].verified
        /\ ~call[a].seen
        /\ call[a].ret = "False"

\* C6: True is returned only when a status read of the same invocation resolved to
\* the action's target; running into the deadline is never reported as True.
C6_TrueOnlyIfSeen ==
    \A a \in Callers :
        /\ call[a].ret = "True" => call[a].seen
        /\ call[a].left_at = "deadline" => call[a].ret = "False"

\* a command that was triggered and verified returned True
C6_Witness ==
    \E a \in Callers :
        call[a].ret = "True" /\ call[a].triggered /\ call[a].seen

\* C7: when the first read already shows the target, True is returned with no
\* trigger request, no verification read and no refresh request.
C7_NoOpWhenAlreadyThere ==
    \A a \in Callers :
        call[a].first_match =>
            /\ call[a].pc = "done"
            /\ call[a].ret = "True"
            /\ call[a].reads = 1
            /\ call[a].triggers = 0
            /\ ~call[a].verified
            /\ call[a].refreshes = 0

\* a command found the panel already in its target state
C7_Witness ==
    \E a \in Callers :
        call[a].first_match /\ call[a].pc = "done" /\ call[a].action = "stay"

\* C8: an unknown action name returns False at once: no panel request, no lock,
\* no refresh request.
C8_UnknownActionRejected ==
    \A a \in Callers :
        call[a].action \notin {"none", "arm", "disarm", "stay"} =>
            /\ call[a].pc = "done"
            /\ call[a].ret = "False"
            /\ ~call[a].acquired
            /\ call[a].reads = 0
            /\ call[a].triggers = 0
            /\ ~call[a].verified
            /\ call[a].refreshes = 0

\* an unknown action was rejected while the other command held the lock
C8_Witness ==
    \E a, b \in Callers :
        /\ call[a].action = "panic"
        /\ call[a].pc = "done"
        /\ call[a].ret = "False"
        /\ InSequence(b)

\* C9: after logout() the session is not flagged authenticated until login() succeeds.
C9_LogoutResetsFlag == hist.logged_out => ~_session_authenticated

\* C10: after a login() that raised, the session is not flagged authenticated.
C10_FailedLoginNotAuthenticated == hist.login_failed => ~_session_authenticated

\* a refresh task whose fetch is in flight: between entering _poll_lock and the
\* update of the failure tracker
InFetch(r) ==
    poll[r].pc \in {"direct", "logout", "login", "pin", "reread", "analytics", "finish"}

\* C12: at most one fetch of _async_update_data is in flight; a refresh asked for
\* meanwhile has made no request until the first has updated _last_data and
\* _consecutive_failures and left the poll lock.
C12_RefreshesDoNotOverlap ==
    /\ Cardinality({r \in Refreshers : InFetch(r)}) <= 1
    /\ _poll_lock <=> (\E r \in Refreshers : InFetch(r))
    /\ \A r \in Refreshers :
          poll[r].pc = "queued" =>
              (poll[r].i = 0 /\ poll[r].trail = << >> /\ poll[r].job = "none")

\* one refresh has fetched and not yet stored its result while the other waits
C12_Witness ==
    \E r, s \in Refreshers :
        r # s /\ poll[r].pc = "finish" /\ poll[r].job = "returned" /\ poll[s].pc = "queued"

\* C13: _consecutive_failures is the number of failed refreshes since the last
\* successful one and _last_data is the snapshot of the last successful refresh; a
\* failed refresh adds exactly one and keeps _last_data, also while a fetch is running.
C13_TrackerMatchesHistory ==
    /\ [](_consecutive_failures = hist.fails /\ _last_data = hist.good)
    /\ [][\A r \in Refreshers :
            /\ (poll[r].pc = "finish" /\ poll'[r].pc = "done" /\ poll[r].job = "raised") =>
                  /\ _consecutive_failures' = _consecutive_failures + 1
                  /\ _last_data' = _last_data
            /\ (poll[r].pc = "finish" /\ poll'[r].pc = "done" /\ poll[r].job = "returned") =>
                  /\ _consecutive_failures' = 0
                  /\ _last_data' = poll[r].result
            /\ (InFetch(r) /\ InFetch(r)') =>
                  /\ _consecutive_failures' = _consecutive_failures
                  /\ _last_data' = _last_data]_vars

\* two refreshes failed after a good one, and a third is part-way through its fetch
C13_Witness ==
    /\ _consecutive_failures = 2
    /\ _last_data # None
    /\ \E r \in Refreshers : poll[r].pc = "reread"

\* C14: while no refresh has ever succeeded, a refresh whose fetch fails raises
\* UpdateFailed whatever the threshold is, and hands back no snapshot.
C14_NoSnapshotMeansRaise ==
    \A r \in Refreshers :
        (FailedRefresh(r) /\ poll[r].h_good = None) =>
            (poll[r].ret = "raised" /\ poll[r].value = None)

\* the very first refresh failed under a threshold that would allow stale data
C14_Witness ==
    \E r \in Refreshers :
        /\ FailedRefresh(r)
        /\ poll[r].h_good = None
        /\ poll[r].h_n = 1
        /\ max_consecutive_failures >= 2
        /\ poll[r].ret = "raised"

\* the requests of one safe_get_status call that had to log in again, in order
ReloginOrder == << "direct", "logout", "submit_login", "submit_pin", "read" >>

\* sequence t is an initial part of sequence u
IsPrefix(t, u) == Len(t) <= Len(u) /\ \A k \in 1..Len(t) : t[k] = u[k]

\* C15: a fetch attempt whose session-reuse read parsed an incomplete page (battery
\* or zones missing, status missing or not resolving) is not counted as failed
\* before logout() and login() have been performed.
C15_IncompleteReuseLogsInAgain ==
    \A r \in Refreshers :
        (poll[r].pc = "finish" /\ poll[r].job = "raised"
            /\ poll[r].h_reuse \in {"incomplete", "unresolved"}) =>
                IsPrefix(<< "direct", "logout", "submit_login" >>, poll[r].trail)

C17_GoodReuseNoLogin ==
    \A r \in Refreshers :
        poll[r].h_reuse \in {"unresolved", "complete"} =>
            /\ poll[r].trail = << "direct" >>
            /\ poll[r].pc \in {"analytics", "finish"}
            /\ poll[r].pc = "analytics" =>
                  (poll[r].data = poll[r].h_src /\ poll[r].attempts = 0)
            /\ poll[r].job = "returned" =>
                  poll[r].result = Some(Snapshot(poll[r].h_src[1]))

\* a refresh served from the live session alone
C17_Witness ==
    \E r \in Refreshers :
        /\ poll[r].pc = "finish"
        /\ poll[r].job = "returned"
        /\ poll[r].h_reuse = "complete"
        /\ poll[r].trail = << "direct" >>
        /\ _session_authenticated

\* C18: once a verification read after the trigger has shown the target status the
\* call returns True, whether the refresh it asks for was deferred, returned data or
\* raised UpdateFailed, and however long that refresh ran.
C18_TrueWhateverTheRefresh ==
    \A a \in Callers :
        /\ (call[a].triggered /\ call[a].seen) =>
              (call[a].pc = "refreshing" \/ (call[a].pc = "done" /\ call[a].ret = "True"))
        /\ call[a].refresh_ret # "none" => (call[a].pc = "done" /\ call[a].ret = "True")
        /\ call[a].pc = "refreshing" => (call[a].seen /\ call[a].ret = "none")

\* True came back although the requested refresh failed and ended past the deadline
C18_Witness ==
    \E a \in Callers :
        /\ call[a].pc = "done"
        /\ call[a].triggered
        /\ call[a].seen
        /\ call[a].refresh_ret = "raised"
        /\ call[a].refresh_late
        /\ call[a].ret = "True"

C11_PollKeepsOffLockedSession ==
    [][\A r \in Refreshers :
          (poll[r].pc \in {"logout", "login", "pin"} /\ poll'[r] # poll[r]) =>
              hist.holders = {}]_vars

\* C20: an entity operation whose perform_action reported failure ends as an error
\* to its caller, not as a normal completion.
C20_FailureIsRejected ==
    \A a \in Callers :
        (call[a].op # "none" /\ call[a].ret = "False") => call[a].op_ret # "completed"

\* C21: one refresh calls _fetch at most max_total_attempts times, ends at the first
\* attempt that succeeds, sleeps between attempts only and raises UpdateFailed
\* exactly when every one of the max_total_attempts attempts failed.
C21_BoundedAttempts ==
    \A r \in Refreshers :
        /\ poll[r].i <= max_total_attempts
        /\ poll[r].i >= 1 => poll[r].sleeps = poll[r].i - 1
        /\ poll[r].i = 0 => poll[r].sleeps = 0
        /\ poll[r].job = "returned" =>
              (poll[r].i >= 1 /\ poll[r].failed = poll[r].i - 1)
        /\ poll[r].job = "raised" =>
              (poll[r].i = max_total_attempts /\ poll[r].failed = max_total_attempts)
        /\ (InFetch(r) /\ poll[r].job = "none") => poll[r].failed = poll[r].i - 1

\* every attempt of a refresh with two or more attempts failed: one sleep fewer
C21_Witness ==
    \E r \in Refreshers :
        /\ poll[r].pc = "finish"
        /\ poll[r].job = "raised"
        /\ max_total_attempts >= 2
        /\ poll[r].failed = max_total_attempts
        /\ poll[r].sleeps = max_total_attempts - 1

\* C26: parse_alarm_status maps exactly the five known status lines to their pairs
\* and gives (None, None), without raising, for every other string and for None.
C26_FiveStatusLines ==
    (fn.name = "parse_alarm_status" /\ fn.pc = "done") =>
        /\ fn.val = Some("AΦOΠΛIΣMENO") => fn.ret = << Some("Disarmed"), None >>
        /\ fn.val = Some("OΠΛIΣMENO ME ZΩNEΣ BYPASS") => fn.ret = << Some("Armed"), Some(TRUE) >>
        /\ fn.val = Some("OΠΛIΣMENO") => fn.ret = << Some("Armed"), Some(FALSE) >>
        /\ fn.val = Some("ΠEPIMETPIKH OΠΛIΣH ME ZΩNEΣ BYPASS") =>
              fn.ret = << Some("Armed Perimeter"), Some(TRUE) >>
        /\ fn.val = Some("ΠEPIMETPIKH OΠΛIΣH") =>
              fn.ret = << Some("Armed Perimeter"), Some(FALSE) >>
        /\ fn.val \notin {Some(r) : r \in KnownRaw} => fn.ret = << None, None >>

\* the perimeter line with bypassed zones has been mapped
C26_Witness ==
    /\ fn.name = "parse_alarm_status" /\ fn.pc = "done"
    /\ fn.val = Some("ΠEPIMETPIKH OΠΛIΣH ME ZΩNEΣ BYPASS")
    /\ fn.ret = << Some("Armed Perimeter"), Some(TRUE) >>

\* s is the word w, letter by letter in either case, between whitespace:
\* up is TRUE when w is written in capitals, FALSE when in small letters
IsVariant(s, w, up) ==
    \E a \in 0..(Len(s) - Len(w)) :
        /\ \A k \in 1..Len(s) : (k <= a \/ k > a + Len(w)) => s[k] \in Whitespace
        /\ \A k \in 1..Len(w) :
              \/ s[a + k] = w[k]
              \/ up /\ << s[a + k], w[k] >> \in CasePairs
              \/ ~up /\ << w[k], s[a + k] >> \in CasePairs

\* C27: _to_bool gives True for every case and whitespace variant of ΝΑΙ, NAI, YES,
\* TRUE, False for every variant of OXI, NO, FALSE, and None for None, the empty
\* string and everything else; it never raises.
C27_ToBoolTotal ==
    (fn.name = "_to_bool" /\ fn.pc = "done") =>
        fn.ret = IF fn.val = None THEN None
                 ELSE IF \E w \in {Str_NAI_el, Str_NAI, Str_YES, Str_TRUE} :
                            IsVariant(fn.val[1], w, TRUE)
                 THEN Some(TRUE)
                 ELSE IF \E w \in {Str_OXI, Str_NO, Str_FALSE} : IsVariant(fn.val[1], w, TRUE)
                 THEN Some(FALSE)
                 ELSE None

\* " nAi" followed by a no-break space has been read as True
C27_Witness ==
    /\ fn.name = "_to_bool" /\ fn.pc = "done"
    /\ fn.val = Some(<< 32, 110, 65, 105, 160 >>)
    /\ fn.ret = Some(TRUE)

\* C28: _to_openclosed gives Closed and Open for the two known tokens in any case
\* and between any whitespace, hands every other token back as it came, unstripped,
\* and gives None for None and the empty string.
C28_OpenClosedOrVerbatim ==
    (fn.name = "_to_openclosed" /\ fn.pc = "done") =>
        fn.ret = IF fn.val = None \/ fn.val = Some(<< >>) THEN None
                 ELSE IF IsVariant(fn.val[1], Str_kleisti, FALSE) THEN Some(Str_Closed)
                 ELSE IF IsVariant(fn.val[1], Str_anoikti, FALSE) THEN Some(Str_Open)
                 ELSE fn.val

\* the token in capitals between a space and a no-break space has been recognised
C28_Witness ==
    /\ fn.name = "_to_openclosed" /\ fn.pc = "done"
    /\ fn.val = Some(<< 32, 913, 925, 927, 921, 922, 932, 905, 160 >>)
    /\ fn.ret = Some(Str_Open)

\* the two results of _encrypt agree: only hexadecimal digits, two per character
\* of the declared length
HexOfDeclaredLength(r) ==
    /\ r.raised = "none"
    /\ \A k \in 1..Len(r.hex) : r.hex[k] \in (48..57) \cup (97..102)
    /\ Len(r.hex) = 2 * int(r.length)

\* C29: for every secret, token and num in 1..7, _encrypt returns a string of
\* hexadecimal digits exactly twice as long as the length it declares.
C29_TwoHexDigitsPerCharacter ==
    (fn.name = "_encrypt" /\ fn.pc = "done") => HexOfDeclaredLength(fn.ret)

\* C30: when 14 - num - len(secret) is negative, _encrypt reports an error and
\* returns no ciphertext.
C30_NegativeSuffixIsAnError ==
    (fn.name = "_encrypt" /\ fn.pc = "done" /\ 14 - fn.num - Len(fn.secret) < 0) =>
        fn.ret.raised # "none"

C24_PolicyIsPerCoordinator ==
    \A e \in Entries :
        entries[e].ran =>
            /\ RETRY_ATTEMPTS_FOR_HTML =
                   opts_get(entries[e].options.retry_attempts_for_html,
                            DEFAULT_RETRY_ATTEMPTS_FOR_HTML)
            /\ RETRY_BACKOFF_FACTOR =
                   opts_get(entries[e].options.retry_backoff_factor,
                            DEFAULT_RETRY_BACKOFF_FACTOR)

\* the PIN an entry asks for: options, else data, else the password
ConfiguredPin(entry) ==
    IF entry.options.pin # None THEN entry.options.pin[1]
    ELSE IF entry.data.pin # None THEN entry.data.pin[1]
    ELSE entry.data.password

\* C25: the client of a constructed coordinator holds as PIN the options PIN if
\* set, else the data PIN, else the password, with surrounding whitespace removed.
C25_PinFromOptionsDataPassword ==
    \A e \in Entries :
        entries[e].ran =>
            /\ entries[e].client[1].raised = "none"
            /\ entries[e].client[1].pin = Some(strip(ConfiguredPin(entries[e])))

\* C23: logout() never raises when its request fails, and when it is over
\* client.session is a newly created session with no cookies, the previous one
\* closed, whether the request was answered or not.
C23_LogoutAlwaysRenews ==
    /\ sess.pc # "raised"
    /\ sess.pc = "returned" =>
          /\ sess.cur # sess.prev
          /\ sess.objs[sess.prev].closed
          /\ sess.objs[sess.cur] = NewSession
          /\ \A k \in 1..Len(sess.objs) : k # sess.cur => sess.objs[k].closed

\* a logout whose request failed has returned, the old session held cookies
C23_Witness ==
    /\ sess.pc = "returned"
    /\ sess.out = "failed"
    /\ sess.objs[sess.prev].cookies
    /\ sess.objs[sess.prev].closed

\* C31: alarm_state maps Disarmed, Armed and Armed Perimeter to DISARMED, ARMED_AWAY
\* and ARMED_HOME and anything else, None included, to None; so every snapshot a
\* refresh returns or the coordinator keeps gives one of the three panel states.
C31_AlarmStateOfSnapshots ==
    /\ alarm_state(Some("Disarmed")) = Some("DISARMED")
    /\ alarm_state(Some("Armed")) = Some("ARMED_AWAY")
    /\ alarm_state(Some("Armed Perimeter")) = Some("ARMED_HOME")
    /\ \A s \in {None, Some(""), Some("Unknown"), Some("armed"), Some("Perimeter Armed"),
                  Some("ARMED_AWAY")} : alarm_state(s) = None
    /\ \A r \in Refreshers :
          poll[r].ret = "returned" =>
              alarm_state(poll[r].value[1].status)
                  \in {Some("DISARMED"), Some("ARMED_AWAY"), Some("ARMED_HOME")}
    /\ _last_data # None =>
          alarm_state(_last_data[1].status)
              \in {Some("DISARMED"), Some("ARMED_AWAY"), Some("ARMED_HOME")}

\* a refresh has returned a perimeter-armed snapshot and the entity shows ARMED_HOME
C31_Witness ==
    \E r \in Refreshers :
        /\ poll[r].ret = "returned"
        /\ poll[r].value[1].status = Some("Armed Perimeter")
        /\ alarm_state(poll[r].value[1].status) = Some("ARMED_HOME")

\* C32: the action endpoint is requested only by an invocation whose initial read
\* resolved the current status to a known status other than the target; after an
\* initial read with an unresolved status no trigger is sent.
C32_TriggerOnlyAfterResolvedStatus ==
    [][\A a \in Callers :
          call'[a].triggers > call[a].triggers =>
              /\ call[a].first_read = "resolved"
              /\ ~call[a].first_match]_vars

\* C33: when the initial read of perform_action returned the login page, the
\* invocation has logged in before it sends the trigger: the trigger goes out on
\* a session the panel has authenticated.
C33_LoginBeforeTrigger ==
    [][\A a \in Callers :
          (call'[a].triggers > call[a].triggers /\ call[a].first_read = "login") =>
              session = "pin"]_vars

EndsInPort(s) ==
    \E k \in 1..Len(s) :
        /\ Len(s) - k >= 1
        /\ s[Len(s) - k] = 58
        /\ \A i \in (Len(s) - k + 1)..Len(s) : s[i] \in 48..57

\* C35: for every host string, what sanitize_host returns has no leading http:// or
\* https://, no trailing :port and no white space at either end, and sanitize_host
\* returns it unchanged.
C35_SanitizeHostIdempotent ==
    (fn.name = "sanitize_host" /\ fn.pc = "done") =>
        /\ ~StartsWith(fn.ret, Str_http)
        /\ ~StartsWith(fn.ret, Str_https)
        /\ ~EndsInPort(fn.ret)
        /\ fn.ret # << >> => (fn.ret[1] \notin Whitespace /\ fn.ret[Len(fn.ret)] \notin Whitespace)
        /\ fn.again = fn.ret

\* C40: in the sigma_alarm variant every resolved status of parse_alarm_status
\* (Disarmed, Armed, Armed Perimeter) is shown by alarm_state as DISARMED,
\* ARMED_AWAY, ARMED_HOME respectively, never as UNKNOWN.
C40_VariantShowsEveryResolvedStatus ==
    (fn.name = "sigma_alarm.alarm_state" /\ fn.pc = "done" /\ fn.status # None) =>
        /\ fn.ret # "UNKNOWN"
        /\ fn.status = Some("Disarmed") => fn.ret = "DISARMED"
        /\ fn.status = Some("Armed") => fn.ret = "ARMED_AWAY"
        /\ fn.status = Some("Armed Perimeter") => fn.ret = "ARMED_HOME"

\* C39: over all safe_get_status calls of a client post_installation_analytics is
\* invoked at most once and never when send_analytics is False, and analytics are
\* marked as sent only by a call that holds data - a call that raised before it had
\* data marks nothing.
C39_AnalyticsAtMostOnce ==
    /\ [](/\ hist.posts <= 1
          /\ ~_send_analytics => hist.posts = 0
          /\ _analytics_sent <=> hist.posts = 1)
    /\ [][_analytics_sent' # _analytics_sent =>
             \E r \in Refreshers :
                 /\ poll[r].pc = "analytics"
                 /\ poll[r].data # None
                 /\ hist'.posts = hist.posts + 1]_vars

\* analytics were posted once and a later safe_get_status has returned data again
C39_Witness ==
    /\ hist.posts = 1
    /\ _analytics_sent
    /\ _last_data # None
    /\ \E r \in Refreshers : poll[r].pc = "finish" /\ poll[r].job = "returned"

\* C38: the wrapper retries AttributeError, IndexError and TypeError only: an
\* invocation that raised anything else - an HTTP error, or the RuntimeError of an
\* exhausted wrapped call inside it - is the last invocation of the call and its
\* exception is what the call raises, and the same holds of the inner call; so
\* the outer function is not run again after an inner exhaustion.
C38_OnlyParseErrorsRetried ==
    /\ \A k \in 1..Len(wrapper.trace) :
          wrapper.trace[k] \in {"other", "exhausted"} =>
              /\ k = Len(wrapper.trace)
              /\ wrapper.pc = "done"
              /\ wrapper.out = (IF wrapper.trace[k] = "exhausted"
                                THEN "RuntimeError" ELSE "HTTPError")
    /\ \A k \in 1..Len(wrapper.inner.trace) :
          wrapper.inner.trace[k] = "other" =>
              /\ k = Len(wrapper.inner.trace)
              /\ wrapper.inner.pc = "done"
              /\ wrapper.inner.out = "HTTPError"
    /\ \A k \in 1..(Len(wrapper.trace) - 1) : wrapper.trace[k] = "parse"
    /\ Len(wrapper.trace) <= wrapper.n

\* the second invocation of the outer function met an exhausted inner call (three
\* parse failures) and the call has raised that RuntimeError
C38_Witness ==
    /\ wrapper.pc = "done"
    /\ wrapper.n = DEFAULT_RETRY_ATTEMPTS_FOR_HTML
    /\ wrapper.trace = << "parse", "exhausted" >>
    /\ wrapper.out = "RuntimeError"
    /\ wrapper.attempt = 2

\* the release callbacks of caller a that are queued on the event loop
Scheduled(a, q) == Cardinality({k \in 1..Len(q) : q[k] = a})

\* the positions of perform_action inside its try block
InTry == {"read", "trigger", "verify", "refreshing"}

\* C36: an invocation that acquired coordinator.lock schedules exactly one release,
\* on each way out of the try block (already in the state, success, deadline, an
\* exception of the first read or of the trigger); an invocation that returned for
\* an invalid action has acquired nothing and schedules none; the lock is held
\* only by an invocation inside the try block or with its release queued; and a
\* command that waits for the lock gets it.
C36_OneReleasePerAcquire ==
    /\ [](\A a \in Callers :
            /\ call[a].pc \in InTry =>
                  lock /\ call[a].acquired /\ hist.holders = {a} /\ releases = << >>
            /\ call[a].pc = "done" /\ call[a].acquired =>
                  /\ call[a].left_at \in {"read", "trigger", "verify", "deadline"}
                  /\ Scheduled(a, releases) = (IF a \in hist.holders THEN 1 ELSE 0)
            /\ call[a].pc = "done" /\ ~call[a].acquired =>
                  call[a].left_at = "check" /\ call[a].ret = "False")
    /\ [](lock <=> hist.holders # {})
    /\ [](lock /\ (\A a \in Callers : call[a].pc \notin InTry) => Len(releases) = 1)
    /\ [](~lock => releases = << >>)
    /\ [][\A a \in Callers :
            /\ call[a].pc \in InTry /\ call'[a].pc \notin InTry =>
                  call'[a].pc = "done" /\ releases' = Append(releases, a)
            /\ Scheduled(a, releases') > Scheduled(a, releases) =>
                  call[a].pc \in InTry /\ call[a].acquired]_vars
    /\ \A a \in Callers : (call[a].pc = "waiting") ~> (call[a].pc = "read")

\* a1 has left at the deadline with its one release queued while a2 waits for the
\* lock
C36_Witness ==
    /\ call["a1"].pc = "done"
    /\ call["a1"].left_at = "deadline"
    /\ call["a1"].acquired
    /\ releases = << "a1" >>
    /\ lock
    /\ call["a2"].pc = "waiting"

\* C37: no deadlock between coordinator.lock and _poll_lock: whenever a command
\* holds coordinator.lock and waits for the refresh it has requested, that refresh
\* has run, or can take its next step, or waits for _poll_lock while the timer's
\* refresh holds it and can take its next step - no refresh waits for anything a
\* command holds, whatever the other command and the timer are doing.
C37_NoLockCycle ==
    \A a \in Callers :
        call[a].pc = "refreshing" =>
            /\ lock /\ hist.holders = {a}
            /\ \/ ENABLED PA_RefreshDone(a)
               \/ ENABLED RequestedRefresh
               \/ /\ poll[RequestTask].pc = "queued"
                  /\ _poll_lock
                  /\ ENABLED TimerUnderPollLock

\* a1 holds coordinator.lock and waits for its refresh, which waits for _poll_lock
\* behind the timer's refresh, while a2 waits for coordinator.lock
C37_Witness ==
    /\ call["a1"].pc = "refreshing"
    /\ call["a2"].pc = "waiting"
    /\ lock
    /\ poll[RequestTask].pc = "queued"
    /\ _poll_lock
    /\ poll[TimerTask].pc \in {"direct", "reread"}

====
